---- MODULE Spec2Model ----
(***************************************************************************)
(* Lifecycle of a command.Capture (capture.go): Start / Restart / Run /    *)
(* Stop / Wait on one controller, together with the os/exec objects the    *)
(* controller holds (one context and one exec.Cmd per Start) and the OS    *)
(* processes behind them.                                                  *)
(*                                                                         *)
(* The caller issues Start, Run, Stop and Wait one after another on the    *)
(* controller (the package starts no goroutine of its own here). Stop is   *)
(* split at the places where it can be observed from outside or blocks:    *)
(* after the cancel, after the ProcessState test, after Process.Kill, and  *)
(* at every wake-up of the select loop. The processes, the context watcher *)
(* of exec.CommandContext and the clock move on their own.                 *)
(*                                                                         *)
(* Specifications: Spec is the lifecycle under a context the caller never  *)
(* cancels; SpecRun is the launching side alone (Run, Rerun,               *)
(* CombinedOutput, Start, Restart); SpecRerun is running to the end alone, *)
(* with options and a context that may be cancelled; SpecCtx lets the      *)
(* caller cancel its context; SpecCmd is a command.Cmd (cmd.go) with       *)
(* Start, Wait and Kill; SpecTimer adds the goroutines of KillTimer;       *)
(* SpecIO is a Cmd whose streams are wired with WireIO (io.go), SpecPumps  *)
(* the same with every pump scheduled again and again; SpecClose           *)
(* is CloseInput on an IO and on a Pipes, and pipes.Attach; SpecOptions    *)
(* is New and With given a list of options; SpecResult is Capture and the  *)
(* re-capture of a Result (result.go).                                     *)
(***************************************************************************)
EXTENDS Integers, Sequences, FiniteSets, TLC

\* ---------------------------------------------------------------- bounds
\* Number of Start/Restart calls (each builds one context and one exec.Cmd).
MaxStarts == 2
\* Number of KillTimer/KillAfter calls on the Cmd (each starts one goroutine).
MaxTimers == 1
\* Number of bytes the child writes to each of its output streams.
MaxWrite == 2
\* Number of options in the list handed to New or With.
MaxOptions == 2
\* Number of calls that capture a Result: the first and the re-captures.
MaxCaptures == 2

\* ------------------------------------------------------ program constants
\* time.NewTicker(time.Second), in seconds.
TickSeconds == 1
\* time.NewTimer(time.Second * 10), in seconds.
CeilingSeconds == 10

\* ----------------------------------------------------------------- values
Execs == 1..MaxStarts

\* Program names handed to Start/Run: "cat" can be spawned, "nosuch" and the
\* empty name (also the name of a fresh Capture) cannot.
Names == {"", "nosuch", "cat"}
ArgLists == {<<>>, <<"-c">>}

\* The commands the caller hands to Start, Run and CombinedOutput.
Commands ==
  {[name |-> "", args |-> <<>>], [name |-> "nosuch", args |-> <<>>],
   [name |-> "cat", args |-> <<>>], [name |-> "cat", args |-> <<"-c">>]}

\* Working directories set with WithDir; the empty one is that of the caller.
Dirs == {"", "/tmp"}

\* What the user-supplied cmdModifierFunc does: absent, returns nil, returns an
\* error.
Modifiers == {"nil", "ok", "fail"}

\* Environments set with WithEnv; the empty one is nil (the caller's own).
Envs == {<<>>, <<"TMP=/tmp">>}

\* The Option values: WithEnv(env), WithDir(dir), WithCmdModifier(fn), each
\* by the field it sets and the value it sets it to.
OptionSet ==
  {[field |-> "Env", value |-> env] : env \in Envs}
    \cup {[field |-> "Dir", value |-> dir] : dir \in Dirs}
    \cup {[field |-> "cmdModifierFunc", value |-> fn] : fn \in Modifiers}

\* The option lists handed to New and With.
OptionLists == UNION {[1..n -> OptionSet] : n \in 0..MaxOptions}

\* How the three pipe requests of a Start end: all attached, or the first one
\* that fails (the stream is already set on the exec.Cmd, or os.Pipe fails).
PipeOutcomes == {"ok", "Stdin", "Stdout", "Stderr"}

\* Exit codes a child returns: success and a failure.
ExitCodes == {0, 1}

\* An os.ProcessState: a normal exit with a code, or death by a signal
\* (ExitCode() is then -1).
Statuses ==
  {[exited |-> TRUE, code |-> n] : n \in ExitCodes} \cup {[exited |-> FALSE, code |-> -1]}

\* error values; code is what (*exec.ExitError).ExitCode() returns.
Err(kind) == [kind |-> kind, code |-> 0]
Nil == Err("nil")
ErrNotStarted == Err("command was not started")
ErrWasntRunning == Err("wasn't running")
ErrTimeout == Err("timeout reached")
ErrModifier == Err("modifier error")
ErrSpawn == Err("exec: spawn failed")
ErrCanceled == Err("context canceled")
ErrExecNotStarted == Err("exec: not started")
ErrWaitAlreadyCalled == Err("exec: Wait was already called")
ErrProcessDone == Err("os: process already finished")
ErrNotRunning == Err("not running")
ErrAlreadyStarted == Err("exec: already started")
ErrClosed == Err("file already closed")
ErrNoChild == Err("wait: no child processes")
ErrPipe(stream) == Err("exec: " \o stream \o " pipe failed")
ExitError(st) == [kind |-> "ExitError", code |-> st.code]

VARIABLES
  \* fields of the Capture (0 stands for a nil tmpCmd / tmpCancel)
  Name, Args, Dir, Env, ExitCode, cmdModifierFunc, tmpCmd, tmpCancel,
  \* the option list the caller holds, to hand to New or With
  options,
  \* the calls of Capture / CaptureContext made so far, each with its Result
  captured,
  \* contexts and exec.Cmd values built so far, by index
  nextExec, ctxDone, Process, ProcessState,
  \* the context the caller hands to Start and Run: whether it is done
  outerDone,
  \* the OS processes
  osProc, osStatus,
  \* the Stop in progress: position, its two timers, seconds since they were made
  pc, ticker, timeout, elapsed,
  \* the last call: operation, returned error, the exec.Cmd it was about
  ret,
  \* the Run that has just returned: how it went and what it handed back
  run,
  \* while a Stop is in progress: whether it has sent Process.Kill, whether
  \* the process was alive when it triggered the cancel, and whether it had
  \* ended by itself by then
  killSent, aliveAtCancel, exitedAtStop,
  \* a command.Cmd (cmd.go): the Cmd and its embedded exec.Cmd, its OS
  \* process, and the caller's call on it (in progress or returned)
  Cmd, cmdProc, cmdCall,
  \* the goroutines started by KillTimer/KillAfter, by index
  killTimers,
  \* an IO made by WireIO (io.go): its fields and pumps; the streams set on the
  \* Cmd; the bytes on their way from the child to the sinks; and the last call
  \* on an IO or a Pipes
  wire, stdio, flow, ioCall

captureVars == <<Name, Args, Dir, Env, ExitCode, cmdModifierFunc, tmpCmd, tmpCancel>>
execVars == <<nextExec, ctxDone, Process, ProcessState>>
osVars == <<osProc, osStatus>>
timerVars == <<ticker, timeout, elapsed>>
stopVars == <<pc, ticker, timeout, elapsed>>
ghostVars == <<killSent, aliveAtCancel, exitedAtStop>>
ioVars == <<wire, stdio, flow, ioCall>>
cmdVars == <<Cmd, cmdProc, cmdCall, killTimers, ioVars>>
capVars == <<captureVars, options, captured, execVars, outerDone, osVars, stopVars, ret, run, ghostVars>>
vars == <<capVars, cmdVars>>

NoTimer == [active |-> FALSE, C |-> FALSE]
NewTimer == [active |-> TRUE, C |-> FALSE]

\* A call that has returned: the operation, its error, the exec.Cmd it was
\* about (for Start the one it built, for Stop and Wait the tmpCmd it found);
\* for Start whether it returned an Interact and how the pipe requests ended
\* ("none": none was made); for Start, Run and CombinedOutput how far the
\* launch went ("none": cmd.Start() was not reached, "failed": it returned an
\* error, "spawned": it made a process).
Returned(op, err, cmd) ==
  [op |-> op, err |-> err, cmd |-> cmd, i |-> FALSE, attach |-> "none", launch |-> "none"]

\* No Run has just returned: since the last one, another call was made, an
\* option was set or the context was cancelled. Of the Run that has just
\* returned, run holds one record: the status its child ended with (<<>>:
\* there was no child), whether it was called through Rerun, what can be read
\* from the Stdout of the Pipes it returned, and whether the *Pipes it
\* returned is non-nil.
NoRun == <<>>

\* The launch field of a call that reached cmd.Start().
Launch(spawned) == IF spawned THEN "spawned" ELSE "failed"

\* ------------------------------------------------------------- pure parts
\* An errToExitCode that reports 0 for every error.
errToExitCodeAlwaysZero(err) == 0

\* errToExitCode: the code of an *exec.ExitError, 0 for anything else.
errToExitCode(err) == IF err.kind = "ExitError" THEN err.code ELSE 0

\* (*os.ProcessState).Exited on a non-nil state (<<>> is the nil pointer).
Exited(ps) == ps # <<>> /\ ps[1].exited

\* Whether the OS can spawn the program.
SpawnOK(name) == name = "cat"

\* The error of cmd.Start() on an exec.Cmd made by exec.CommandContext: the
\* error of a context that is already done, else that of the spawn.
cmdStartErr(name, done) ==
  IF done THEN ErrCanceled ELSE IF SpawnOK(name) THEN Nil ELSE ErrSpawn

\* A makeExecCmd that drops the error of the modifier hook.
makeExecCmdIgnoresHook(modifier) == Nil

\* makeExecCmd: the error of the modifier hook, if there is one and it fails.
makeExecCmd(modifier) == IF modifier = "fail" THEN ErrModifier ELSE Nil

\* A doStart that does not look at the error of StderrPipe.
doStartPipesSkipsStderr(pipes) ==
  IF pipes = "Stdin" THEN ErrPipe("Stdin")
  ELSE IF pipes = "Stdout" THEN ErrPipe("Stdout")
  ELSE Nil

\* The three pipe requests of doStart, in their order: StdinPipe, StdoutPipe,
\* StderrPipe. The first that fails ends doStart with its error.
doStartPipes(pipes) ==
  IF pipes = "Stdin" THEN ErrPipe("Stdin")
  ELSE IF pipes = "Stdout" THEN ErrPipe("Stdout")
  ELSE IF pipes = "Stderr" THEN ErrPipe("Stderr")
  ELSE Nil

\* The error doStart returns once the pipes are attached and cmd.Start() has
\* returned startErr: the Interact is returned with a nil error either way.
doStartResult(startErr) == Nil

\* A Stop guard that lets a call through as long as either field is set.
StopNotStartedBothNil(cancel, cmd) == cancel = 0 /\ cmd = 0

\* Stop refuses to act unless both tmpCancel and tmpCmd are set.
StopNotStarted(cancel, cmd) == cancel = 0 \/ cmd = 0

\* Wait refuses to act unless both tmpCancel and tmpCmd are set.
WaitNotStarted(cancel, cmd) == cancel = 0 \/ cmd = 0

\* doStop calls tmpCancel() when there is one: that context is done.
doStopCancel(done, cancel) == IF cancel # 0 THEN [done EXCEPT ![cancel] = TRUE] ELSE done

\* A cancel that also cancels the context it was derived from.
doStopCancelNotifiesUp(outer) == TRUE

\* doStop's tmpCancel() as seen by the caller's context: cancelling the child
\* context does not notify upward.
doStopCancelOuter(outer) == outer

\* A first test that takes only a recorded exit for "stopped".
StoppedAlreadyExitedOnly(ps) == Exited(ps)

\* doStop's first test of the process state: nil or exited means "stopped".
StoppedAlready(ps) == ps = <<>> \/ Exited(ps)

\* The exit code doStop leaves in the controller when it finds the command
\* stopped: that of the process state, when there is one.
doStopExitCode(ps, old) == IF ps # <<>> THEN ps[1].code ELSE old

\* Stop, after doStop has returned err with exit code `recorded` in place.
StopExitCode(err, recorded) == errToExitCode(err)

\* A doStop that forgets to clear the handle.
doStopKeptCmd(cmd) == cmd

\* The handle doStop leaves when it finds the command stopped.
doStopClearedCmd(cmd) == 0

\* No command.Cmd has been made yet.
NoCmd ==
  [made |-> FALSE, Path |-> "", cancelFunc |-> FALSE, ctxDone |-> FALSE,
   Process |-> FALSE, ProcessState |-> <<>>]

\* The OS process of the Cmd: none yet; otherwise running, ended (not waited
\* for) or reaped, with the status it ended with and whether it ended by
\* itself.
NoProc == [state |-> "none", status |-> [exited |-> TRUE, code |-> 0], byItself |-> FALSE]

\* A call on the Cmd that has returned err. For Kill: whether it called
\* Process.Kill(), and whether the process had already exited by itself with
\* success when Kill was called.
CmdReturned(op, err) ==
  [op |-> op, pc |-> "idle", err |-> err, signalled |-> FALSE, exitedOK |-> FALSE]

\* The goroutines of KillTimer/KillAfter.
Timers == 1..MaxTimers

\* The three standard streams, in the order WireIO and Attach go through
\* them, and the two the child writes to.
Streams == <<"Stdin", "Stdout", "Stderr">>
StreamSet == {"Stdin", "Stdout", "Stderr"}
OutStreams == {"Stdout", "Stderr"}

\* The place of a stream in that order.
StreamIndex(s) == CHOOSE n \in 1..3 : Streams[n] = s

\* WireIO has not been called. Once it has, wire holds whether it returned
\* an IO, which fields of that IO are set, the pumps it started, and whether
\* the read end of the input pipe has been closed.
NoIO == <<>>

\* The number of bytes in the source handed to WireIO for the input stream.
SourceLen == MaxWrite

\* An output stream nobody has written to: how many bytes the child has
\* written, the bytes in the os.Pipe, the bytes that have reached the sink.
NoFlow == [written |-> 0, pipe |-> <<>>, sink |-> <<>>]

\* No call has been made on an IO or a Pipes.
NoIOCall == <<>>

\* A call on an IO or a Pipes that has ended: by returning err, or in a panic;
\* for WireIO, which of its three arguments were non-nil; for pipes.Attach,
\* the requests the Plumber fails, the requests that were made, in their
\* order, and the *Pipes returned (<<>>: nil).
IOReturned(op, err) ==
  [op |-> op, err |-> err, panic |-> FALSE, src |-> [s \in StreamSet |-> FALSE],
   failing |-> {}, asked |-> <<>>, p |-> <<>>]
Panicked(op) == [IOReturned(op, Nil) EXCEPT !.panic = TRUE]

\* The durations handed to KillTimer and the instants handed to KillAfter
\* (and read from the clock by it), in units of the timer.
Durations == {-1, 0, 1}
Instants == {0, 1}

\* The goroutine KillTimer starts, about to sleep for `left`: where it is
\* (sleep, wait, lost, blocked, send, done), what is left of its Sleep, the result of its
\* Kill, how many times it has called Kill, what has been received from its
\* errCh, and whether the process was running when it called Kill.
NewKillTimer(left) ==
  [pc |-> "sleep", left |-> left, err |-> Nil, kills |-> 0, sent |-> <<>>, live |-> FALSE]

\* No goroutine of KillTimer has been started; killTimers holds the ones that
\* have been.
NoKillTimers == <<>>

\* --------------------------------------------------------------- options
\* The configuration of the Capture: the fields the options set.
Config == [Env |-> Env, Dir |-> Dir, cmdModifierFunc |-> cmdModifierFunc]

\* The configuration of the zero Capture (var c Capture).
ZeroConfig == [Env |-> <<>>, Dir |-> "", cmdModifierFunc |-> "nil"]

\* option(c): WithEnv sets Env, WithDir sets Dir, WithCmdModifier sets
\* cmdModifierFunc.
SetOption(c, option) ==
  IF option.field = "Env" THEN [c EXCEPT !.Env = option.value]
  ELSE IF option.field = "Dir" THEN [c EXCEPT !.Dir = option.value]
  ELSE [c EXCEPT !.cmdModifierFunc = option.value]

RECURSIVE ApplyOptions(_, _)
RECURSIVE ApplyOptionsFirstWins(_, _)

\* A loop over the options that applies the last one first.
ApplyOptionsFirstWins(c, list) ==
  IF list = <<>> THEN c
  ELSE SetOption(ApplyOptionsFirstWins(c, Tail(list)), Head(list))

\* for _, option := range options { option(c) }: the options are applied in
\* their order.
ApplyOptions(c, list) ==
  IF list = <<>> THEN c
  ELSE ApplyOptions(SetOption(c, Head(list)), Tail(list))

\* New(options...): the options applied to the zero Capture.
New(list) == ApplyOptions(ZeroConfig, list)

\* --------------------------------------------------------------- initial
\* A Capture whose configuration is c, with nothing built or spawned; the
\* caller holds the option list `list`.
Built(c, list) ==
  /\ Name = "" /\ Args = <<>> /\ ExitCode = 0
  /\ Env = c.Env /\ Dir = c.Dir /\ cmdModifierFunc = c.cmdModifierFunc
  /\ options = list /\ captured = <<>>
  /\ tmpCmd = 0 /\ tmpCancel = 0
  /\ nextExec = 0
  /\ ctxDone = [e \in Execs |-> FALSE]
  /\ Process = [e \in Execs |-> FALSE]
  /\ ProcessState = [e \in Execs |-> <<>>]
  /\ osProc = [e \in Execs |-> "none"]
  /\ osStatus = [e \in Execs |-> [exited |-> TRUE, code |-> 0]]
  /\ pc = "idle"
  /\ ticker = NoTimer /\ timeout = NoTimer /\ elapsed = 0
  /\ outerDone = FALSE
  /\ ret = Returned("none", Nil, 0) /\ run = NoRun
  /\ killSent = FALSE /\ aliveAtCancel = FALSE /\ exitedAtStop = FALSE
  /\ Cmd = NoCmd /\ cmdProc = NoProc /\ cmdCall = CmdReturned("none", Nil)
  /\ killTimers = NoKillTimers
  /\ wire = NoIO /\ stdio = {}
  /\ flow = <<>>
  /\ ioCall = NoIOCall

\* command.New() with no options: the zero Capture; the caller holds no
\* options.
Init == Built(New(<<>>), <<>>)

\* A Capture made for an option list the caller holds: by New() (the list is
\* for a later With), or by New(options...).
InitOptions ==
  \E list \in OptionLists : Built(New(<<>>), list) \/ Built(New(list), list)

\* ----------------------------------------------------- options, Start, Run
\* With(WithCmdModifier(fn)): replaces the modifier hook.
With(modifier) ==
  /\ pc = "idle"
  /\ cmdModifierFunc' = modifier
  /\ run' = NoRun
  /\ UNCHANGED <<Name, Args, Dir, Env, options, captured, ExitCode, tmpCmd, tmpCancel>>
  /\ UNCHANGED <<execVars, outerDone, cmdVars, osVars, stopVars, ret, ghostVars>>

\* With(WithDir(dir)): replaces the working directory.
WithDir(dir) ==
  /\ pc = "idle"
  /\ Dir' = dir
  /\ run' = NoRun
  /\ UNCHANGED <<Name, Args, Env, options, captured, ExitCode, cmdModifierFunc, tmpCmd, tmpCancel>>
  /\ UNCHANGED <<execVars, outerDone, cmdVars, osVars, stopVars, ret, ghostVars>>

\* With(options...) with the list the caller holds: every option is applied
\* to the Capture.
WithOptions ==
  /\ pc = "idle"
  /\ LET c == ApplyOptions(Config, options)
     IN Env' = c.Env /\ Dir' = c.Dir /\ cmdModifierFunc' = c.cmdModifierFunc
  /\ run' = NoRun
  /\ UNCHANGED <<Name, Args, options, captured, ExitCode, tmpCmd, tmpCancel>>
  /\ UNCHANGED <<execVars, outerDone, cmdVars, osVars, stopVars, ret, ghostVars>>

\* Whether doStart hands back an Interact: not when a pipe request failed.
doStartInteract(pipeErr) == pipeErr = Nil

\* A child context made under the context of the Start before.
StartCtxUnderPrevious(done, e, outer, cancel) ==
  [done EXCEPT ![e] = outer \/ (cancel # 0 /\ done[cancel])]

\* A Start that first calls the cancel it is about to replace.
StartCtxCancelsPrevious(done, e, outer, cancel) ==
  [x \in Execs |-> IF x = e THEN outer ELSE (done[x] \/ x = cancel)]

\* Start's context.WithCancel(ctx): context e is a child of the caller's
\* context, done from the start when that one is. The cancel recorded before
\* (cancel) is dropped without being called.
StartCtx(done, e, outer, cancel) == [done EXCEPT ![e] = outer]

\* A Start that records the exec.Cmd it made whatever happens next.
StartRecordsCmdAlways(err, e, old) == e

\* The handle Start leaves: the new exec.Cmd when doStart returned no error.
StartRecordsCmd(err, e, old) == IF err = Nil THEN e ELSE old

\* Start: name and args are recorded, tmpCancel is replaced by the cancel of a
\* fresh child context, the exec.Cmd is built (modifier), the pipes are
\* attached and cmd.Start() is called. tmpCmd is set when doStart returns no
\* error.
Start(name, args, pipes) ==
  /\ pc = "idle"
  /\ nextExec < MaxStarts
  /\ run' = NoRun
  /\ LET e == nextExec + 1
         mkErr == makeExecCmd(cmdModifierFunc)
         pipeErr == doStartPipes(pipes)
         startErr == cmdStartErr(name, outerDone)
         err == IF mkErr # Nil THEN mkErr
                ELSE IF pipeErr # Nil THEN pipeErr
                ELSE doStartResult(startErr)
         launched == mkErr = Nil /\ pipeErr = Nil
         spawned == launched /\ startErr = Nil
     IN /\ Name' = name
        /\ Args' = args
        /\ tmpCancel' = e
        /\ nextExec' = e
        /\ ctxDone' = StartCtx(ctxDone, e, outerDone, tmpCancel)
        /\ tmpCmd' = StartRecordsCmd(err, e, tmpCmd)
        /\ ExitCode' = IF launched /\ startErr # Nil
                       THEN errToExitCode(startErr) ELSE ExitCode
        /\ Process' = [Process EXCEPT ![e] = spawned]
        /\ osProc' = [osProc EXCEPT ![e] = IF spawned THEN "running" ELSE "none"]
        /\ ret' = [Returned("Start", err, e) EXCEPT
                     !.i = mkErr = Nil /\ doStartInteract(pipeErr),
                     !.attach = IF mkErr = Nil THEN pipes ELSE "none",
                     !.launch = IF launched THEN Launch(spawned) ELSE "none"]
  /\ UNCHANGED <<Dir, Env, options, captured, cmdModifierFunc, ProcessState, outerDone, cmdVars, osStatus, stopVars, ghostVars>>

\* Restart: Start with the recorded name and args.
Restart(pipes) == Start(Name, Args, pipes)

\* How a program handed to Run can end once it has been spawned.
RunStatuses(name) == IF SpawnOK(name) THEN Statuses ELSE {[exited |-> TRUE, code |-> 0]}

\* The error of cmd.Run() and of cmd.CombinedOutput(): that of cmd.Start(), or
\* else that of cmd.Wait() for a child that ends with status st.
cmdRunErr(name, done, st) ==
  IF cmdStartErr(name, done) # Nil THEN cmdStartErr(name, done)
  ELSE IF st.exited /\ st.code = 0 THEN Nil
  ELSE ExitError(st)

\* What Run and CombinedOutput return: the error of the modifier, or else that
\* of running the command to its end.
RunReturned(op, name, st) ==
  LET mkErr == makeExecCmd(cmdModifierFunc)
  IN [Returned(op, IF mkErr # Nil THEN mkErr ELSE cmdRunErr(name, outerDone, st), 0) EXCEPT
        !.launch = IF mkErr # Nil THEN "none" ELSE Launch(cmdStartErr(name, outerDone) = Nil)]

\* The child of a Run or CombinedOutput that ends with status st, if the
\* launch gets as far as making one.
RunChild(name, st) ==
  IF makeExecCmd(cmdModifierFunc) = Nil /\ cmdStartErr(name, outerDone) = Nil
  THEN <<st>> ELSE <<>>

\* What a child writes to its standard output: for a command that is
\* deterministic and free of side effects, a function of its command line and
\* working directory.
Written(name, args, dir) == <<name, dir>> \o args

\* A doRun that keeps writing into the buffer of the Run before.
doRunStdoutKeepsBuffer(before, written) == before \o written

\* doRun: the Stdout of the returned Pipes is a buffer made for this Run, which
\* holds what the child wrote.
doRunStdout(before, written) == written

\* Whether Run returns a *Pipes: nil when makeExecCmd failed, else the one
\* doRun made.
RunPipes(mkErr) == mkErr = Nil

\* Run (rerun: called through Rerun): name and args are recorded, the exec.Cmd
\* is built and run to its end (the child ends with status st); the exit code
\* is taken from the error of cmd.Run().
RunCall(rerun, name, args, st) ==
  /\ pc = "idle"
  /\ Name' = name
  /\ Args' = args
  /\ ret' = RunReturned("Run", name, st)
  /\ run' = <<[child |-> RunChild(name, st),
               re |-> rerun,
               out |-> IF makeExecCmd(cmdModifierFunc) # Nil THEN <<>>
                       ELSE doRunStdout(IF run = NoRun THEN <<>> ELSE run[1].out,
                              IF RunChild(name, st) # <<>> THEN Written(name, args, Dir)
                              ELSE <<>>),
               pipes |-> RunPipes(makeExecCmd(cmdModifierFunc))]>>
  /\ ExitCode' = IF makeExecCmd(cmdModifierFunc) # Nil THEN ExitCode
                 ELSE errToExitCode(cmdRunErr(name, outerDone, st))
  /\ UNCHANGED <<Dir, Env, options, captured, cmdModifierFunc, tmpCmd, tmpCancel>>
  /\ UNCHANGED <<execVars, outerDone, cmdVars, osVars, stopVars, ghostVars>>

\* Run, called by the caller.
Run(name, args, st) == RunCall(FALSE, name, args, st)

\* Rerun: Run with the recorded name and args.
Rerun(st) == RunCall(TRUE, Name, Args, st)

\* CombinedOutput: name and args are recorded, the exec.Cmd is built and run
\* to its end; the exit code of the controller is left alone.
CombinedOutput(name, args, st) ==
  /\ pc = "idle"
  /\ run' = NoRun
  /\ Name' = name
  /\ Args' = args
  /\ ret' = RunReturned("CombinedOutput", name, st)
  /\ UNCHANGED <<Dir, Env, options, captured, ExitCode, cmdModifierFunc, tmpCmd, tmpCancel>>
  /\ UNCHANGED <<execVars, outerDone, cmdVars, osVars, stopVars, ghostVars>>

\* ------------------------------------------------------------------- Wait
\* The status the kernel keeps for a process nobody has waited for yet.
NoStatus == [exited |-> TRUE, code |-> 0]

\* (*exec.Cmd).Wait on exec.Cmd e, once the caller is no longer blocked in it:
\* the error it returns.
cmdWaitErr(e) ==
  IF ~Process[e] THEN ErrExecNotStarted
  ELSE IF ProcessState[e] # <<>> THEN ErrWaitAlreadyCalled
  ELSE IF osStatus[e].exited /\ osStatus[e].code = 0 THEN Nil
  ELSE ExitError(osStatus[e])

\* Wait: refuses without a handle; otherwise (*exec.Cmd).Wait, which blocks
\* until the process has ended, reaps it and records its ProcessState.
Wait ==
  /\ pc = "idle"
  /\ run' = NoRun
  /\ IF WaitNotStarted(tmpCancel, tmpCmd)
     THEN /\ ret' = Returned("Wait", ErrNotStarted, tmpCmd)
          /\ UNCHANGED <<ProcessState, osVars>>
     ELSE LET e == tmpCmd
              reaps == Process[e] /\ ProcessState[e] = <<>>
          IN /\ reaps => osProc[e] = "ended"
             /\ ret' = Returned("Wait", cmdWaitErr(e), e)
             /\ IF reaps
                THEN /\ ProcessState' = [ProcessState EXCEPT ![e] = <<osStatus[e]>>]
                     /\ osProc' = [osProc EXCEPT ![e] = "reaped"]
                     /\ osStatus' = [osStatus EXCEPT ![e] = NoStatus]
                ELSE UNCHANGED <<ProcessState, osVars>>
  /\ UNCHANGED <<captureVars, options, captured, nextExec, ctxDone, Process, outerDone, cmdVars, stopVars, ghostVars>>

\* ------------------------------------------------------------------- Stop
\* Stop returns err after doStop left exit code `recorded` and handle `cmd`:
\* the exit code is set from err; the timers are dropped.
StopReturns(err, recorded, cmd) ==
  /\ ExitCode' = StopExitCode(err, recorded)
  /\ tmpCmd' = cmd
  /\ ret' = [ret EXCEPT !.err = err]
  /\ pc' = "idle"
  /\ ticker' = NoTimer /\ timeout' = NoTimer /\ elapsed' = 0
  /\ killSent' = FALSE /\ aliveAtCancel' = FALSE /\ exitedAtStop' = FALSE

\* Stop goes on without returning.
StopGoesOn(to) ==
  /\ pc' = to
  /\ UNCHANGED <<ExitCode, tmpCmd, ret>>

\* What no step of doStop touches.
StopFrame == UNCHANGED <<Name, Args, Dir, Env, options, captured, cmdModifierFunc, tmpCancel, execVars, outerDone, cmdVars, run, osVars>>

\* Stop up to and including the making of the timers in doStop: the guard,
\* then tmpCancel() and the two timers.
StopCall ==
  /\ pc = "idle"
  /\ run' = NoRun
  /\ IF StopNotStarted(tmpCancel, tmpCmd)
     THEN /\ ret' = Returned("Stop", ErrNotStarted, tmpCmd)
          /\ UNCHANGED <<ctxDone, outerDone, stopVars, ghostVars>>
     ELSE /\ ret' = Returned("Stop", Nil, tmpCmd)
          /\ ctxDone' = doStopCancel(ctxDone, tmpCancel)
          /\ outerDone' = doStopCancelOuter(outerDone)
          /\ ticker' = NewTimer /\ timeout' = NewTimer /\ elapsed' = 0
          /\ pc' = "poll"
          /\ killSent' = FALSE
          /\ aliveAtCancel' = (tmpCmd # 0 /\ osProc[tmpCmd] = "running")
          /\ exitedAtStop' = (/\ tmpCmd # 0
                              /\ osProc[tmpCmd] \in {"ended", "reaped"}
                              /\ ~ctxDone[tmpCmd])
  /\ UNCHANGED <<captureVars, options, captured, nextExec, Process, ProcessState, osVars, cmdVars>>

\* doStop, the nil test of tmpCmd and the first test of the process state: a
\* nil or exited state ends Stop with the handle cleared.
StopPoll ==
  /\ pc = "poll"
  /\ IF tmpCmd = 0
     THEN StopReturns(ErrWasntRunning, ExitCode, tmpCmd)
     ELSE IF StoppedAlready(ProcessState[tmpCmd])
     THEN StopReturns(Nil, doStopExitCode(ProcessState[tmpCmd], ExitCode),
                      doStopClearedCmd(tmpCmd))
     ELSE /\ StopGoesOn("kill")
          /\ UNCHANGED <<timerVars, ghostVars>>
  /\ StopFrame

\* doStop, the second test and Process.Kill(): killErr is what the OS answers.
StopKill(killErr) ==
  /\ pc = "kill"
  /\ IF Exited(ProcessState[tmpCmd])
     THEN StopReturns(Nil, ExitCode, tmpCmd)
     ELSE IF killErr # Nil
     THEN StopReturns(killErr, ExitCode, tmpCmd)
     ELSE /\ StopGoesOn("loop")
          /\ killSent' = TRUE
          /\ UNCHANGED <<timerVars, aliveAtCancel, exitedAtStop>>
  /\ StopFrame

\* The select loop, case <-ticker.C: a process state that has not exited stops
\* both timers and goes round again; otherwise Stop returns tmpCmd.Wait().
StopTick ==
  /\ pc = "loop"
  /\ ticker.C
  /\ IF ~Exited(ProcessState[tmpCmd])
     THEN /\ StopGoesOn("loop")
          /\ ticker' = [active |-> FALSE, C |-> FALSE]
          /\ timeout' = [timeout EXCEPT !.active = FALSE]
          /\ UNCHANGED <<elapsed, ghostVars>>
     ELSE StopReturns(cmdWaitErr(tmpCmd), ExitCode, tmpCmd)
  /\ StopFrame

\* The select loop, case <-timeout.C: the ticker is stopped and Stop fails.
StopTimeout ==
  /\ pc = "loop"
  /\ timeout.C
  /\ StopReturns(ErrTimeout, ExitCode, tmpCmd)
  /\ StopFrame

\* ------------------------------------------------------------ environment
\* One second passes while Stop sits in its select: an active ticker puts a
\* tick in its channel, the timeout fires when the ceiling is reached.
TimePasses ==
  /\ pc = "loop"
  /\ elapsed < CeilingSeconds
  /\ elapsed' = elapsed + TickSeconds
  /\ ticker' = IF ticker.active THEN [ticker EXCEPT !.C = TRUE] ELSE ticker
  /\ timeout' = IF timeout.active /\ elapsed' >= CeilingSeconds
                THEN [timeout EXCEPT !.C = TRUE] ELSE timeout
  /\ UNCHANGED <<captureVars, options, captured, execVars, outerDone, cmdVars, run, osVars, pc, ret, ghostVars>>

\* A running process ends by itself: it exits with a code or dies of a signal
\* that did not come from this package.
ProcExit(e, st) ==
  /\ osProc[e] = "running"
  /\ osProc' = [osProc EXCEPT ![e] = "ended"]
  /\ osStatus' = [osStatus EXCEPT ![e] = st]
  /\ UNCHANGED <<captureVars, options, captured, execVars, outerDone, cmdVars, run, stopVars, ret, ghostVars>>

\* An exec.Cmd made by exec.Command: no context ever kills its process.
CommandWithoutContext(done) == FALSE

\* makeExecCmd makes the exec.Cmd with exec.CommandContext(ctx, ...): its
\* process is to be killed when that context is done.
CommandContext(done) == done

\* exec.CommandContext: once the context of a started exec.Cmd is done, its
\* process is killed.
CtxKill(e) ==
  /\ osProc[e] = "running"
  /\ CommandContext(ctxDone[e])
  /\ osProc' = [osProc EXCEPT ![e] = "ended"]
  /\ osStatus' = [osStatus EXCEPT ![e] = [exited |-> FALSE, code |-> -1]]
  /\ UNCHANGED <<captureVars, options, captured, execVars, outerDone, cmdVars, run, stopVars, ret, ghostVars>>

\* The caller cancels the context it handed to Start and Run: that context
\* and the child contexts made from it so far are done.
CancelOuter ==
  /\ ~outerDone
  /\ outerDone' = TRUE
  /\ ctxDone' = [e \in Execs |-> ctxDone[e] \/ e <= nextExec]
  /\ run' = NoRun
  /\ UNCHANGED <<captureVars, options, captured, nextExec, Process, ProcessState, osVars, stopVars, ret, ghostVars>>
  /\ UNCHANGED cmdVars

\* ------------------------------------------------------ command.Cmd (cmd.go)
\* The caller makes one Cmd and calls Start, Wait and Kill on it, one call
\* after another. Kill is split where it blocks: before the Wait it ends with.

\* New: an exec.Cmd made by exec.Command, no cancel function.
CmdNew(name) ==
  /\ ~Cmd.made
  /\ Cmd' = [NoCmd EXCEPT !.made = TRUE, !.Path = name]
  /\ UNCHANGED <<cmdProc, cmdCall, killTimers, capVars, ioVars>>

\* NewWithContext: an exec.Cmd made by exec.CommandContext with a child of the
\* given context, whose cancel is kept as cancelFunc.
CmdNewWithContext(name) ==
  /\ ~Cmd.made
  /\ Cmd' = [NoCmd EXCEPT !.made = TRUE, !.Path = name, !.cancelFunc = TRUE]
  /\ UNCHANGED <<cmdProc, cmdCall, killTimers, capVars, ioVars>>

\* The error of the embedded (*exec.Cmd).Start: the program is not found, the
\* command was started before, or its context is already done.
execStartErr(c) ==
  IF ~SpawnOK(c.Path) THEN ErrSpawn
  ELSE IF c.Process THEN ErrAlreadyStarted
  ELSE IF c.ctxDone THEN ErrCanceled
  ELSE Nil

\* Start (of the embedded exec.Cmd): spawns the process unless it fails.
CmdStart ==
  /\ Cmd.made /\ cmdCall.pc = "idle"
  /\ cmdCall' = CmdReturned("Start", execStartErr(Cmd))
  /\ IF execStartErr(Cmd) = Nil
     THEN /\ Cmd' = [Cmd EXCEPT !.Process = TRUE]
          /\ cmdProc' = [NoProc EXCEPT !.state = "running"]
     ELSE UNCHANGED <<Cmd, cmdProc>>
  /\ UNCHANGED <<killTimers, capVars, ioVars>>

\* An (*exec.Cmd).Wait that does not refuse a second call.
execWaitErrNoRepeatTest(c, p) ==
  IF ~c.Process THEN ErrExecNotStarted
  ELSE IF p.status.exited /\ p.status.code = 0 THEN Nil
  ELSE ExitError(p.status)

\* The error of the embedded (*exec.Cmd).Wait once it returns: it refuses a
\* command without a process and a second Wait; otherwise it reports how the
\* process ended.
execWaitErr(c, p) ==
  IF ~c.Process THEN ErrExecNotStarted
  ELSE IF c.ProcessState # <<>> THEN ErrWaitAlreadyCalled
  ELSE IF p.status.exited /\ p.status.code = 0 THEN Nil
  ELSE ExitError(p.status)

\* The goroutines of KillTimer that are inside (*exec.Cmd).Wait when another
\* task's Wait collects the process: they have lost it.
Outrun(timers) ==
  IF DOMAIN timers = {} THEN timers
  ELSE [t \in DOMAIN timers |->
          IF timers[t].pc = "wait" THEN [timers[t] EXCEPT !.pc = "lost"] ELSE timers[t]]

\* The caller's call that is inside (*exec.Cmd).Wait when a goroutine's Wait
\* collects the process: it has lost it.
OutrunCall(call) == IF call.pc = "wait" THEN [call EXCEPT !.pc = "lost"] ELSE call

\* What (*exec.Cmd).Wait can return to a task that was inside it, on the same
\* exec.Cmd, while another task's Wait collected the process (exec.Cmd is not
\* made for concurrent calls): the refusal of a second Wait, or the error of
\* the wait system call.
LostWaitErrs == {ErrWaitAlreadyCalled, ErrNoChild}

\* Whether such a Wait can stay blocked for good: on a Cmd with a context,
\* Wait receives the one value the context watcher of exec sends, and only
\* one of the two Waits gets it.
LostWaitBlocks(c) == c.cancelFunc

\* (*exec.Cmd).Wait returns: at once when it refuses, else when the process
\* has ended; it then reaps the process and records its ProcessState, and the
\* goroutines inside Wait at that moment have lost the process.
execWait(op) ==
  LET reaps == Cmd.Process /\ Cmd.ProcessState = <<>>
  IN /\ reaps => cmdProc.state = "ended"
     /\ cmdCall' = [cmdCall EXCEPT !.op = op, !.pc = "idle", !.err = execWaitErr(Cmd, cmdProc)]
     /\ IF reaps
        THEN /\ Cmd' = [Cmd EXCEPT !.ProcessState = <<cmdProc.status>>]
             /\ cmdProc' = [cmdProc EXCEPT !.state = "reaped"]
             /\ killTimers' = Outrun(killTimers)
        ELSE UNCHANGED <<Cmd, cmdProc, killTimers>>

\* Wait called by the caller: it is inside (*exec.Cmd).Wait.
CmdWait ==
  /\ Cmd.made /\ cmdCall.pc = "idle"
  /\ cmdCall' = [CmdReturned("Wait", Nil) EXCEPT !.pc = "wait"]
  /\ UNCHANGED <<Cmd, cmdProc, killTimers, capVars, ioVars>>

\* The caller's Wait returns.
CmdWaitReturns ==
  /\ cmdCall.pc = "wait" /\ cmdCall.op = "Wait"
  /\ execWait("Wait")
  /\ cmdCall'.signalled = FALSE /\ cmdCall'.exitedOK = FALSE
  /\ UNCHANGED <<capVars, ioVars>>

\* The caller's Wait, or the Wait at the end of its Kill, lost the process to
\* a goroutine and returns an error.
CmdLostReturns(err) ==
  /\ cmdCall.pc = "lost"
  /\ cmdCall' = [cmdCall EXCEPT !.pc = "idle", !.err = err]
  /\ UNCHANGED <<Cmd, cmdProc, killTimers, capVars, ioVars>>

\* The caller's Wait, or the Wait at the end of its Kill, lost the process to
\* a goroutine and never returns.
CmdLostBlocks ==
  /\ cmdCall.pc = "lost" /\ LostWaitBlocks(Cmd)
  /\ cmdCall' = [cmdCall EXCEPT !.pc = "blocked"]
  /\ UNCHANGED <<Cmd, cmdProc, killTimers, capVars, ioVars>>

\* A Kill that signals the process whenever there is no cancel function.
KillPathNoNilTest(cancel, process) == IF cancel THEN "cancel" ELSE "signal"

\* A Kill that prefers the signal to the cancel function.
KillPathSignalFirst(cancel, process) ==
  IF process THEN "signal" ELSE IF cancel THEN "cancel" ELSE "none"

\* Kill's choice: the cancel function when there is one, else a signal to the
\* process when there is one, else nothing.
KillPath(cancel, process) ==
  IF cancel THEN "cancel" ELSE IF process THEN "signal" ELSE "none"

\* The error of (*os.Process).Kill: a process that has been waited for is
\* reported as finished; otherwise the signal is sent.
ProcessKill(p) == IF p.state = "reaped" THEN ErrProcessDone ELSE Nil

\* The process after SIGKILL was sent to it: a running process dies of it.
Killed(p) ==
  IF p.state = "running"
  THEN [p EXCEPT !.state = "ended", !.status = [exited |-> FALSE, code |-> -1]]
  ELSE p

\* Kill, up to the Wait it ends with: cancelFunc(), or Process.Kill() (whose
\* error is returned at once), or the not-running error.
KillCall ==
  /\ Cmd.made /\ cmdCall.pc = "idle"
  /\ LET path == KillPath(Cmd.cancelFunc, Cmd.Process)
         killErr == ProcessKill(cmdProc)
         call == [CmdReturned("Kill", Nil) EXCEPT
                    !.exitedOK = /\ cmdProc.state \in {"ended", "reaped"}
                                 /\ cmdProc.byItself
                                 /\ cmdProc.status.exited /\ cmdProc.status.code = 0]
     IN IF path = "cancel"
        THEN /\ Cmd' = [Cmd EXCEPT !.ctxDone = TRUE]
             /\ cmdCall' = [call EXCEPT !.pc = "wait"]
             /\ UNCHANGED cmdProc
        ELSE IF path = "signal"
        THEN /\ cmdCall' = IF killErr # Nil
                           THEN [call EXCEPT !.err = killErr, !.signalled = TRUE]
                           ELSE [call EXCEPT !.pc = "wait", !.signalled = TRUE]
             /\ cmdProc' = IF killErr # Nil THEN cmdProc ELSE Killed(cmdProc)
             /\ UNCHANGED Cmd
        ELSE /\ cmdCall' = [call EXCEPT !.err = ErrNotRunning]
             /\ UNCHANGED <<Cmd, cmdProc>>
  /\ UNCHANGED <<killTimers, capVars, ioVars>>

\* Kill's final c.Wait() returns, and Kill with it.
KillWait ==
  /\ cmdCall.pc = "wait" /\ cmdCall.op = "Kill"
  /\ execWait("Kill")
  /\ cmdCall'.signalled = cmdCall.signalled /\ cmdCall'.exitedOK = cmdCall.exitedOK
  /\ UNCHANGED <<capVars, ioVars>>

\* The running process of the Cmd ends by itself.
CmdProcExit(st) ==
  /\ cmdProc.state = "running"
  /\ cmdProc' = [state |-> "ended", status |-> st, byItself |-> TRUE]
  /\ UNCHANGED <<Cmd, cmdCall, killTimers, capVars, ioVars>>

\* exec.CommandContext: the process of a Cmd made with a context is killed
\* once that context is done.
CmdCtxKill ==
  /\ Cmd.cancelFunc /\ Cmd.ctxDone
  /\ cmdProc.state = "running"
  /\ cmdProc' = Killed(cmdProc)
  /\ UNCHANGED <<Cmd, cmdCall, killTimers, capVars, ioVars>>

\* The caller cancels the context it handed to NewWithContext: the child
\* context of the Cmd is done.
CmdCancelOuter ==
  /\ Cmd.made /\ Cmd.cancelFunc /\ ~Cmd.ctxDone
  /\ Cmd' = [Cmd EXCEPT !.ctxDone = TRUE]
  /\ UNCHANGED <<cmdProc, cmdCall, killTimers, capVars, ioVars>>

\* ------------------------------------------- KillTimer, KillAfter (cmd.go)
\* time.Sleep(d): what is left to sleep; nothing for a duration that is not
\* positive.
Sleep(d) == IF d > 0 THEN d ELSE 0

\* time.Until(at), read when the clock shows now.
Until(at, now) == at - now

\* A goroutine that reports only a Kill that found something to kill.
KillTimerSendsKills(err) == err # ErrNotRunning

\* errCh <- c.Kill(): whatever Kill returns is sent.
KillTimerSends(err) == TRUE

\* KillTimer: starts goroutine t, which first sleeps for d, and returns.
KillTimer(t, d) ==
  /\ Cmd.made /\ cmdCall.pc = "idle"
  /\ t \notin DOMAIN killTimers
  /\ killTimers' = (t :> NewKillTimer(Sleep(d))) @@ killTimers
  /\ UNCHANGED <<Cmd, cmdProc, cmdCall, capVars, ioVars>>

\* KillAfter: KillTimer with the time left until the instant `at`.
KillAfter(t, at, now) == KillTimer(t, Until(at, now))

\* The goroutine in time.Sleep: one unit of time passes.
KillTimerSleep(t) ==
  /\ t \in DOMAIN killTimers /\ killTimers[t].pc = "sleep" /\ killTimers[t].left > 0
  /\ killTimers' = [killTimers EXCEPT ![t].left = @ - 1]
  /\ UNCHANGED <<Cmd, cmdProc, cmdCall, capVars, ioVars>>

\* The goroutine calls c.Kill() once Sleep has returned; Kill runs up to the
\* Wait it ends with (cancelFunc(), or Process.Kill(), or the not-running
\* error), on whatever the Cmd holds at that moment.
KillTimerKill(t) ==
  /\ t \in DOMAIN killTimers /\ killTimers[t].pc = "sleep" /\ killTimers[t].left = 0
  /\ LET path == KillPath(Cmd.cancelFunc, Cmd.Process)
         killErr == ProcessKill(cmdProc)
         k == [killTimers[t] EXCEPT !.kills = @ + 1, !.live = cmdProc.state = "running"]
     IN IF path = "cancel"
        THEN /\ Cmd' = [Cmd EXCEPT !.ctxDone = TRUE]
             /\ killTimers' = [killTimers EXCEPT ![t] = [k EXCEPT !.pc = "wait"]]
             /\ UNCHANGED cmdProc
        ELSE IF path = "signal"
        THEN /\ killTimers' = [killTimers EXCEPT ![t] =
                                 IF killErr # Nil
                                 THEN [k EXCEPT !.pc = "send", !.err = killErr]
                                 ELSE [k EXCEPT !.pc = "wait"]]
             /\ cmdProc' = IF killErr # Nil THEN cmdProc ELSE Killed(cmdProc)
             /\ UNCHANGED Cmd
        ELSE /\ killTimers' = [killTimers EXCEPT ![t] = [k EXCEPT !.pc = "send", !.err = ErrNotRunning]]
             /\ UNCHANGED <<Cmd, cmdProc>>
  /\ UNCHANGED <<cmdCall, capVars, ioVars>>

\* The c.Wait() at the end of the goroutine's Kill returns: at once when it
\* refuses, else when the process has ended; it then reaps the process and
\* records its ProcessState, and the other tasks inside Wait at that moment
\* have lost the process.
KillTimerWait(t) ==
  /\ t \in DOMAIN killTimers /\ killTimers[t].pc = "wait"
  /\ LET reaps == Cmd.Process /\ Cmd.ProcessState = <<>>
         returned == [killTimers[t] EXCEPT !.pc = "send", !.err = execWaitErr(Cmd, cmdProc)]
     IN /\ reaps => cmdProc.state = "ended"
        /\ IF reaps
           THEN /\ Cmd' = [Cmd EXCEPT !.ProcessState = <<cmdProc.status>>]
                /\ cmdProc' = [cmdProc EXCEPT !.state = "reaped"]
                /\ killTimers' = [Outrun(killTimers) EXCEPT ![t] = returned]
                /\ cmdCall' = OutrunCall(cmdCall)
           ELSE /\ killTimers' = [killTimers EXCEPT ![t] = returned]
                /\ UNCHANGED <<Cmd, cmdProc, cmdCall>>
  /\ UNCHANGED <<capVars, ioVars>>

\* The Wait at the end of the goroutine's Kill lost the process to another
\* task and returns an error.
KillTimerLostReturns(t, err) ==
  /\ t \in DOMAIN killTimers /\ killTimers[t].pc = "lost"
  /\ killTimers' = [killTimers EXCEPT ![t].pc = "send", ![t].err = err]
  /\ UNCHANGED <<Cmd, cmdProc, cmdCall, capVars, ioVars>>

\* The Wait at the end of the goroutine's Kill lost the process to another
\* task and never returns.
KillTimerLostBlocks(t) ==
  /\ t \in DOMAIN killTimers /\ killTimers[t].pc = "lost" /\ LostWaitBlocks(Cmd)
  /\ killTimers' = [killTimers EXCEPT ![t].pc = "blocked"]
  /\ UNCHANGED <<Cmd, cmdProc, cmdCall, capVars, ioVars>>

\* errCh <- (the result of Kill): the send completes when the other end of
\* the channel receives; the goroutine ends.
KillTimerSend(t) ==
  /\ t \in DOMAIN killTimers /\ killTimers[t].pc = "send"
  /\ KillTimerSends(killTimers[t].err)
  /\ killTimers' = [killTimers EXCEPT ![t].pc = "done", ![t].sent = Append(@, killTimers[t].err)]
  /\ UNCHANGED <<Cmd, cmdProc, cmdCall, capVars, ioVars>>

\* ------------------------------------------------------ IO, WireIO (io.go)
\* What the caller hands to WireIO: for each stream, whether the source or
\* sink is non-nil.
Wirings == [StreamSet -> BOOLEAN]

\* Whether WireIO gets as far as stream s: it goes through the non-nil
\* streams in order and panics at the one whose os.Pipe() fails (fail; "ok":
\* none fails).
WireIOReaches(src, fail, s) ==
  fail = "ok" \/ ~src[fail] \/ StreamIndex(s) < StreamIndex(fail)

\* Whether WireIO panics: os.Pipe() fails for a stream it asks a pipe for.
WireIOPanics(src, fail) == fail # "ok" /\ src[fail]

\* A WireIO that starts a pump for every stream.
WireIOPumpsAlways(nonnil) == 1

\* The pumps (goroutines running io.Copy) WireIO starts for a stream: one if
\* the source or sink is non-nil.
WireIOPumps(nonnil) == IF nonnil THEN 1 ELSE 0

\* WireIO(stdin, stdout, stderr): for every non-nil source or sink an os.Pipe
\* is made and a pump is started; the IO is returned with the pipe ends in
\* the fields of those streams. No step waits for a pump.
WireIO(src, fail) ==
  /\ wire = NoIO
  /\ wire' = [made |-> ~WireIOPanics(src, fail),
              set |-> [s \in StreamSet |->
                         ~WireIOPanics(src, fail) /\ src[s]],
              pumps |-> [s \in StreamSet |->
                           IF WireIOReaches(src, fail, s) THEN WireIOPumps(src[s]) ELSE 0],
              closed |-> FALSE, over |-> {}]
  /\ ioCall' = [IF WireIOPanics(src, fail) THEN Panicked("WireIO")
                ELSE IOReturned("WireIO", Nil) EXCEPT !.src = src]
  /\ UNCHANGED <<stdio, flow, Cmd, cmdProc, cmdCall, killTimers, capVars>>

\* (*IO).Apply(c): the non-nil fields of the IO are set on the Cmd, which has
\* not been started yet.
Apply ==
  /\ wire # NoIO /\ wire.made /\ Cmd.made /\ ~Cmd.Process /\ cmdCall.pc = "idle"
  /\ stdio' = stdio \cup {s \in StreamSet : wire.set[s]}
  /\ ioCall' = IOReturned("Apply", Nil)
  /\ UNCHANGED <<wire, flow, Cmd, cmdProc, cmdCall, killTimers, capVars>>

\* The state of output stream s: flow holds the streams the child has
\* written to.
Flow(s) == IF s \in DOMAIN flow THEN flow[s] ELSE NoFlow

\* The running child writes its next byte to output stream s, which is the
\* write end of the pipe that WireIO made.
ChildWrite(s) ==
  /\ cmdProc.state = "running" /\ s \in stdio
  /\ Flow(s).written < MaxWrite
  /\ flow' = (s :> [Flow(s) EXCEPT !.written = @ + 1,
                                   !.pipe = Append(@, Flow(s).written + 1)]) @@ flow
  /\ UNCHANGED <<wire, stdio, ioCall, Cmd, cmdProc, cmdCall, killTimers, capVars>>

\* Who holds the write end of the pipe of output stream s open: the IO that
\* WireIO returned, in the field of that stream (nothing closes it; after a
\* panic of WireIO nothing refers to it any more and the runtime closes it),
\* and the child it was handed to, until it exits.
WriteEndHolders(s) ==
  (IF wire.made /\ wire.set[s] THEN {"IO"} ELSE {})
  \cup (IF s \in stdio /\ cmdProc.state = "running" THEN {"child"} ELSE {})

\* A read from the pipe of output stream s reports the end of the stream:
\* the pipe is empty and no one holds its write end open.
PipeEOF(s) == Flow(s).pipe = <<>> /\ WriteEndHolders(s) = {}

\* The pump of output stream s, in io.Copy(sink, reader): it reads what is in
\* the pipe and writes it to the sink; at the end of the stream io.Copy
\* returns and the pump is over.
Pump(s) ==
  /\ wire # NoIO /\ wire.pumps[s] > 0 /\ s \notin wire.over
  /\ IF Flow(s).pipe # <<>>
     THEN /\ flow' = [flow EXCEPT ![s].sink = @ \o flow[s].pipe, ![s].pipe = <<>>]
          /\ UNCHANGED wire
     ELSE /\ PipeEOF(s)
          /\ wire' = [wire EXCEPT !.over = @ \cup {s}]
          /\ UNCHANGED flow
  /\ UNCHANGED <<stdio, ioCall, Cmd, cmdProc, cmdCall, killTimers, capVars>>

\* The pump of the input stream, in io.Copy(writer, source): it reads the next
\* byte of the source and writes it to the pipe, which has room for it; when
\* the source is exhausted io.Copy returns and the pump is over.
InPump ==
  /\ wire # NoIO /\ wire.pumps["Stdin"] > 0 /\ "Stdin" \notin wire.over
  /\ IF Flow("Stdin").written < SourceLen
     THEN /\ flow' = ("Stdin" :> [Flow("Stdin") EXCEPT
                                    !.written = @ + 1,
                                    !.pipe = Append(@, Flow("Stdin").written + 1)]) @@ flow
          /\ UNCHANGED wire
     ELSE /\ wire' = [wire EXCEPT !.over = @ \cup {"Stdin"}]
          /\ UNCHANGED flow
  /\ UNCHANGED <<stdio, ioCall, Cmd, cmdProc, cmdCall, killTimers, capVars>>

\* (*os.File).Close on the read end of the input pipe: an error the second
\* time.
FileClose(closed) == IF closed THEN ErrClosed ELSE Nil

\* (*IO).CloseInput: closes Stdin when it is set; nil otherwise.
IOCloseInput(stdin, closed) ==
  IF stdin THEN IOReturned("IO.CloseInput", FileClose(closed))
  ELSE IOReturned("IO.CloseInput", Nil)

\* The caller calls CloseInput on the IO.
CloseInputIO ==
  /\ wire # NoIO /\ wire.made
  /\ ioCall' = IOCloseInput(wire.set["Stdin"], wire.closed)
  /\ wire' = [wire EXCEPT !.closed = @ \/ wire.set["Stdin"]]
  /\ UNCHANGED <<stdio, flow, Cmd, cmdProc, cmdCall, killTimers, capVars>>

\* (*Pipes).CloseInput (pipes.go): p.Stdin.Close(), whatever Stdin is; the
\* call on a nil Stdin panics.
PipesCloseInput(stdin, closed) ==
  IF stdin THEN IOReturned("Pipes.CloseInput", FileClose(closed))
  ELSE Panicked("Pipes.CloseInput")

\* The Stdin of the Pipes that doRun returns: nil.
doRunStdin == FALSE

\* The caller calls CloseInput on the Pipes that the last Run returned.
CloseInputPipes ==
  /\ pc = "idle" /\ run # NoRun /\ run[1].pipes
  /\ ioCall' = PipesCloseInput(doRunStdin, FALSE)
  /\ UNCHANGED <<wire, stdio, flow, Cmd, cmdProc, cmdCall, killTimers, capVars>>

\* ------------------------------------------------ pipes.Attach (pipes/pipes.go)
\* The conduit a Plumber returns for stream s when the request succeeds.
PlumberPipe(s) == <<"pipe", s>>

\* An Attach that hands back what it has collected when a request fails.
AttachKeepsPartial(failing) ==
  IF "Stdin" \in failing
  THEN [asked |-> <<"Stdin">>, p |-> <<[Stdin |-> <<>>, Stdout |-> <<>>, Stderr |-> <<>>]>>,
        err |-> ErrPipe("Stdin")]
  ELSE IF "Stdout" \in failing
  THEN [asked |-> <<"Stdin", "Stdout">>,
        p |-> <<[Stdin |-> PlumberPipe("Stdin"), Stdout |-> <<>>, Stderr |-> <<>>]>>,
        err |-> ErrPipe("Stdout")]
  ELSE IF "Stderr" \in failing
  THEN [asked |-> <<"Stdin", "Stdout", "Stderr">>,
        p |-> <<[Stdin |-> PlumberPipe("Stdin"), Stdout |-> PlumberPipe("Stdout"),
                 Stderr |-> <<>>]>>,
        err |-> ErrPipe("Stderr")]
  ELSE [asked |-> <<"Stdin", "Stdout", "Stderr">>,
        p |-> <<[Stdin |-> PlumberPipe("Stdin"), Stdout |-> PlumberPipe("Stdout"),
                 Stderr |-> PlumberPipe("Stderr")]>>,
        err |-> Nil]

\* Attach(pbr): StdinPipe, StdoutPipe, StderrPipe are requested one after the
\* other; the first request that fails ends Attach with (nil, err); otherwise
\* the three conduits are returned in a Pipes.
Attach(failing) ==
  IF "Stdin" \in failing
  THEN [asked |-> <<"Stdin">>, p |-> <<>>, err |-> ErrPipe("Stdin")]
  ELSE IF "Stdout" \in failing
  THEN [asked |-> <<"Stdin", "Stdout">>, p |-> <<>>, err |-> ErrPipe("Stdout")]
  ELSE IF "Stderr" \in failing
  THEN [asked |-> <<"Stdin", "Stdout", "Stderr">>, p |-> <<>>, err |-> ErrPipe("Stderr")]
  ELSE [asked |-> <<"Stdin", "Stdout", "Stderr">>,
        p |-> <<[Stdin |-> PlumberPipe("Stdin"), Stdout |-> PlumberPipe("Stdout"),
                 Stderr |-> PlumberPipe("Stderr")]>>,
        err |-> Nil]

\* The caller calls pipes.Attach with a Plumber that fails the requests in
\* `failing`.
AttachCall(failing) ==
  /\ ioCall' = [IOReturned("Attach", Attach(failing).err) EXCEPT
                  !.failing = failing,
                  !.asked = Attach(failing).asked,
                  !.p = Attach(failing).p]
  /\ UNCHANGED <<wire, stdio, flow, Cmd, cmdProc, cmdCall, killTimers, capVars>>

\* ------------------------------------------------------ Result (result.go)
\* A file path is the sequence of its elements: <<"", "bin", "cat">> is
\* /bin/cat, <<".", "tool">> is ./tool, <<"cat">> is the bare name cat and
\* <<>> is the empty string.
FilePaths ==
  {<<>>, <<"cat">>, <<"", "bin", "cat">>, <<"", "opt", "cat">>,
   <<".", "tool">>, <<"date">>, <<"nosuch">>}

\* The directories of $PATH of the calling process.
PATH == {<<"", "bin">>}

\* The executable files: the status each exits with, and whether it writes
\* the same output every time it is given the same arguments and environment.
Programs ==
  (<<"", "bin", "cat">> :> [code |-> 0, fixed |-> TRUE])
  @@ (<<"", "opt", "cat">> :> [code |-> 1, fixed |-> TRUE])
  @@ (<<".", "tool">> :> [code |-> 1, fixed |-> TRUE])
  @@ (<<"", "bin", "date">> :> [code |-> 0, fixed |-> FALSE])

ErrNotFound == Err("exec: executable file not found in $PATH")
ErrNoCommand == Err("exec: no command")

\* path.Base: the last element of the path; "." for the empty path.
Base(p) == IF p = <<>> THEN <<".">> ELSE <<p[Len(p)]>>

\* exec.LookPath for a name without a directory: the file of that name in a
\* directory of $PATH.
LookPath(file) ==
  IF \E d \in PATH : d \o file \in DOMAIN Programs
  THEN [path |-> (CHOOSE d \in PATH : d \o file \in DOMAIN Programs) \o file, err |-> Nil]
  ELSE [path |-> <<>>, err |-> ErrNotFound]

\* exec.CommandContext(ctx, name, args...): Path is the name, replaced by the
\* file LookPath finds when the name has no directory; Args is the name
\* followed by the arguments.
Command(name, args) ==
  LET lp == LookPath(name) IN
  [Path |-> IF Base(name) = name /\ lp.path # <<>> THEN lp.path ELSE name,
   Args |-> <<name>> \o args,
   Err  |-> IF Base(name) = name THEN lp.err ELSE Nil]

\* What the program at `file` writes when run with args and env.
Outputs(file, args, env) ==
  IF Programs[file].fixed THEN {<<file>> \o args \o env}
  ELSE {<<<<"Sat">>>>, <<<<"Sun">>>>}

\* cmd.CombinedOutput(): the outcomes of starting cmd under a context that is
\* done or not, and waiting for it.
CombinedOutputOf(cmd, env, done) ==
  IF cmd.Path = <<>> THEN {[output |-> <<>>, err |-> ErrNoCommand]}
  ELSE IF cmd.Err # Nil THEN {[output |-> <<>>, err |-> cmd.Err]}
  ELSE IF done THEN {[output |-> <<>>, err |-> ErrCanceled]}
  ELSE IF cmd.Path \notin DOMAIN Programs THEN {[output |-> <<>>, err |-> ErrSpawn]}
  ELSE {[output |-> o,
         err |-> IF Programs[cmd.Path].code = 0 THEN Nil
                 ELSE ExitError(Programs[cmd.Path])] :
          o \in Outputs(cmd.Path, Tail(cmd.Args), env)}

\* capture: the Result made of cmd and of what CombinedOutput returned.
capture(cmd, env, out) ==
  [Name |-> Base(cmd.Path), Args |-> Tail(cmd.Args), Env |-> env,
   Output |-> out.output, ExitCode |-> errToExitCode(out.err)]

\* One call: the name and arguments handed to exec.CommandContext, whether
\* the context was done, and what the call returned.
Captured(name, args, done, cmd, env, out) ==
  [name |-> name, args |-> args, done |-> done,
   cr |-> capture(cmd, env, out), err |-> out.err]

\* CaptureContext(ctx, env, name, args...).
CaptureContext(done, env, name, args) ==
  /\ captured = <<>>
  /\ \E out \in CombinedOutputOf(Command(name, args), env, done) :
       captured' = <<Captured(name, args, done, Command(name, args), env, out)>>
  /\ UNCHANGED <<captureVars, options, execVars, outerDone, osVars, stopVars, ret, run, ghostVars, cmdVars>>

\* Capture(env, name, args...): CaptureContext under context.Background().
Capture(env, name, args) == CaptureContext(FALSE, env, name, args)

\* cr.CaptureContext(ctx) on the Result of the last call.
ResultCaptureContext(done) ==
  /\ captured # <<>> /\ Len(captured) < MaxCaptures
  /\ LET cr == captured[Len(captured)].cr
         cmd == Command(cr.Name, cr.Args) IN
     \E out \in CombinedOutputOf(cmd, cr.Env, done) :
       captured' = Append(captured, Captured(cr.Name, cr.Args, done, cmd, cr.Env, out))
  /\ UNCHANGED <<captureVars, options, execVars, outerDone, osVars, stopVars, ret, run, ghostVars, cmdVars>>

\* cr.Capture(): cr.CaptureContext under context.Background().
ResultCapture == ResultCaptureContext(FALSE)

\* ---------------------------------------------------------- specification
Next ==
  \/ \E m \in Modifiers : With(m)
  \/ \E c \in Commands, p \in PipeOutcomes : Start(c.name, c.args, p)
  \/ \E p \in PipeOutcomes : Restart(p)
  \/ \E c \in Commands : \E st \in RunStatuses(c.name) : Run(c.name, c.args, st)
  \/ Wait
  \/ StopCall
  \/ StopPoll
  \/ \E k \in {Nil, ErrProcessDone} : StopKill(k)
  \/ StopTick
  \/ StopTimeout
  \/ TimePasses
  \/ \E e \in Execs, st \in Statuses : ProcExit(e, st)
  \/ \E e \in Execs : CtxKill(e)

Spec == Init /\ [][Next]_vars

\* The caller only launches: it sets options, starts commands and runs
\* commands to their end (Run, Rerun, CombinedOutput), waits for started
\* ones, and never stops one.
NextRun ==
  \/ \E m \in Modifiers : With(m)
  \/ \E c \in Commands, p \in PipeOutcomes : Start(c.name, c.args, p)
  \/ \E p \in PipeOutcomes : Restart(p)
  \/ \E c \in Commands : \E st \in RunStatuses(c.name) : Run(c.name, c.args, st)
  \/ \E st \in RunStatuses(Name) : Rerun(st)
  \/ \E c \in Commands : \E st \in RunStatuses(c.name) : CombinedOutput(c.name, c.args, st)
  \/ Wait
  \/ \E e \in Execs, st \in Statuses : ProcExit(e, st)

SpecRun == Init /\ [][NextRun]_vars

\* The caller only runs commands to their end (Run, Rerun, CombinedOutput),
\* sets options between the runs, and may cancel the context it runs them
\* under.
NextRerun ==
  \/ \E m \in Modifiers : With(m)
  \/ \E dir \in Dirs : WithDir(dir)
  \/ \E c \in Commands : \E st \in RunStatuses(c.name) : Run(c.name, c.args, st)
  \/ \E st \in RunStatuses(Name) : Rerun(st)
  \/ \E c \in Commands : \E st \in RunStatuses(c.name) : CombinedOutput(c.name, c.args, st)
  \/ CancelOuter

SpecRerun == Init /\ [][NextRerun]_vars

\* A Capture made with or without an option list, on which the caller calls
\* With with that list between runs and starts.
NextOptions ==
  \/ WithOptions
  \/ \E c \in Commands : \E st \in RunStatuses(c.name) : Run(c.name, c.args, st)
  \/ \E c \in Commands : Start(c.name, c.args, "ok")

SpecOptions == InitOptions /\ [][NextOptions]_vars

\* The caller starts, waits for and stops commands under a context that it
\* may cancel at any moment. The goroutine that exec starts for an exec.Cmd
\* with a context kills the process once the context is done, and the kernel
\* ends a killed process: CtxKill is not delayed for ever.
NextCtx ==
  \/ \E c \in Commands, p \in PipeOutcomes : Start(c.name, c.args, p)
  \/ Wait
  \/ StopCall
  \/ StopPoll
  \/ \E k \in {Nil, ErrProcessDone} : StopKill(k)
  \/ StopTick
  \/ StopTimeout
  \/ TimePasses
  \/ \E e \in Execs, st \in Statuses : ProcExit(e, st)
  \/ \E e \in Execs : CtxKill(e)
  \/ CancelOuter

SpecCtx == Init /\ [][NextCtx]_vars /\ \A e \in Execs : WF_vars(CtxKill(e))

\* One command.Cmd, made with or without a context, and the calls on it.
NextCmd ==
  \/ \E n \in Names : CmdNew(n)
  \/ \E n \in Names : CmdNewWithContext(n)
  \/ CmdStart
  \/ CmdWait
  \/ CmdWaitReturns
  \/ KillCall
  \/ KillWait
  \/ \E st \in Statuses : CmdProcExit(st)
  \/ CmdCtxKill
  \/ CmdCancelOuter

SpecCmd == Init /\ [][NextCmd]_vars

\* The Cmd with the goroutines of KillTimer and KillAfter beside the caller.
\* Every goroutine is scheduled, time passes, the kernel ends a killed
\* process, a Kill or Wait whose process has ended returns, and the other end
\* of errCh receives.
NextTimer ==
  \/ NextCmd
  \/ \E t \in Timers, d \in Durations : KillTimer(t, d)
  \/ \E t \in Timers, at \in Instants, now \in Instants : KillAfter(t, at, now)
  \/ \E t \in Timers : KillTimerSleep(t)
  \/ \E t \in Timers : KillTimerKill(t)
  \/ \E t \in Timers : KillTimerWait(t)
  \/ \E t \in Timers : KillTimerSend(t)
  \/ \E err \in LostWaitErrs : CmdLostReturns(err)
  \/ CmdLostBlocks
  \/ \E t \in Timers, err \in LostWaitErrs : KillTimerLostReturns(t, err)
  \/ \E t \in Timers : KillTimerLostBlocks(t)

\* A Cmd whose streams are wired with WireIO: the caller makes the IO and the
\* Cmd, applies the one to the other, starts the Cmd and waits for it; the
\* child writes, and the pumps copy, on their own.
NextIO ==
  \/ \E src \in Wirings, fail \in PipeOutcomes : WireIO(src, fail)
  \/ Apply
  \/ \E n \in Names : CmdNew(n)
  \/ CmdStart
  \/ CmdWait
  \/ CmdWaitReturns
  \/ \E st \in Statuses : CmdProcExit(st)
  \/ \E s \in OutStreams : ChildWrite(s)
  \/ \E s \in OutStreams : Pump(s)
  \/ InPump
  \/ CloseInputIO

SpecIO == Init /\ [][NextIO]_vars

\* The same, with every pump scheduled again and again.
SpecPumps ==
  /\ Init /\ [][NextIO]_vars
  /\ WF_vars(InPump) /\ \A s \in OutStreams : WF_vars(Pump(s))

\* The stream holders the library hands out, and CloseInput on them: an IO
\* made by WireIO, the Pipes returned by Run, and the Pipes that pipes.Attach
\* makes from a Plumber.
NextClose ==
  \/ \E failing \in SUBSET StreamSet : AttachCall(failing)
  \/ \E src \in Wirings, fail \in PipeOutcomes : WireIO(src, fail)
  \/ CloseInputIO
  \/ \E c \in Commands : \E st \in RunStatuses(c.name) : Run(c.name, c.args, st)
  \/ CloseInputPipes

SpecClose == Init /\ [][NextClose]_vars

\* The package functions of result.go alone: one Capture or CaptureContext,
\* then re-captures of the Result it returned.
NextResult ==
  \/ \E env \in Envs, name \in FilePaths, args \in ArgLists : Capture(env, name, args)
  \/ \E done \in BOOLEAN, env \in Envs, name \in FilePaths, args \in ArgLists :
       CaptureContext(done, env, name, args)
  \/ ResultCapture
  \/ \E done \in BOOLEAN : ResultCaptureContext(done)

SpecResult == Init /\ [][NextResult]_vars

SpecTimer ==
  /\ Init /\ [][NextTimer]_vars
  /\ WF_vars(CmdCtxKill)
  /\ \A t \in Timers :
       /\ WF_vars(KillTimerSleep(t)) /\ WF_vars(KillTimerKill(t))
       /\ WF_vars(KillTimerWait(t)) /\ WF_vars(KillTimerSend(t))
       /\ WF_vars(KillTimerLostBlocks(t)
                  \/ \E err \in LostWaitErrs : KillTimerLostReturns(t, err))

TypeOK ==
  /\ Name \in Names /\ Args \in ArgLists /\ Dir \in Dirs /\ Env \in Envs
  /\ options \in OptionLists
  /\ ExitCode \in ExitCodes \cup {-1}
  /\ cmdModifierFunc \in Modifiers
  /\ tmpCmd \in 0..MaxStarts /\ tmpCancel \in 0..MaxStarts
  /\ nextExec \in 0..MaxStarts
  /\ pc \in {"idle", "poll", "kill", "loop"}
  /\ elapsed \in 0..CeilingSeconds
  /\ outerDone \in BOOLEAN
  /\ Cmd.Path \in Names /\ Cmd.ProcessState \in {<<>>} \cup {<<st>> : st \in Statuses}
  /\ cmdProc.state \in {"none", "running", "ended", "reaped"}
  /\ cmdProc.status \in Statuses
  /\ cmdCall.pc \in {"idle", "wait", "lost", "blocked"}
  /\ cmdCall.op \in {"none", "Start", "Wait", "Kill"}
  /\ DOMAIN killTimers \subseteq Timers
  /\ \A t \in DOMAIN killTimers :
       /\ killTimers[t].pc \in {"sleep", "wait", "lost", "blocked", "send", "done"}
       /\ killTimers[t].left \in 0..1 /\ killTimers[t].kills \in 0..1
       /\ Len(killTimers[t].sent) <= 1

\* ================================================================= claims
\* C1: whenever Stop has returned nil, the process of the handle it found has
\* exited and its exit has been observed (it is not running and the exec.Cmd
\* holds its ProcessState).
C1_StopSuccessMeansExited ==
  (pc = "idle" /\ ret.op = "Stop" /\ ret.err = Nil /\ ret.cmd # 0 /\ Process[ret.cmd])
    => (osProc[ret.cmd] # "running" /\ ProcessState[ret.cmd] # <<>>)

C3_StopRecordsExitCode ==
  (pc = "idle" /\ ret.op = "Stop" /\ ret.err = Nil /\ ret.cmd # 0
     /\ Exited(ProcessState[ret.cmd]))
    => ExitCode = ProcessState[ret.cmd][1].code

\* C4: a Start of a program the OS cannot spawn returns a non-nil error.
C4_SpawnFailureReported ==
  (ret.op = "Start" /\ ~SpawnOK(Name)) => ret.err # Nil

\* C5: a recorded handle always belongs to a spawned process, and a Stop or
\* Wait that follows a Start whose spawn failed returns the not-started error.
C5_HandleOnlyAfterSpawn ==
  /\ tmpCmd # 0 => Process[tmpCmd]
  /\ (pc = "idle" /\ ret.op \in {"Stop", "Wait"} /\ ret.cmd # 0 /\ ~Process[ret.cmd])
       => ret.err = ErrNotStarted

\* C6: a Stop or Wait called while no handle is recorded returns the
\* not-started error in the same step (it neither blocks nor goes on into
\* doStop) and leaves Name, Args, ExitCode, tmpCmd and tmpCancel as they were.
C6_NoHandleIsRefused ==
  [][(pc = "idle" /\ tmpCmd = 0 /\ ret' # ret /\ ret'.op \in {"Stop", "Wait"})
       => /\ ret'.err = ErrNotStarted
          /\ pc' = "idle"
          /\ UNCHANGED <<Name, Args, ExitCode, tmpCmd, tmpCancel>>]_vars

\* C6 witness: before any Start, with a name and a non-zero exit code left by
\* a Run, a Stop or Wait has returned the not-started error.
C6_Witness ==
  /\ nextExec = 0 /\ Name # "" /\ ExitCode # 0
  /\ ret.op \in {"Stop", "Wait"} /\ ret.err = ErrNotStarted

\* C7: a Stop that returns nil leaves the handle cleared; a cleared handle is
\* set again only by a Start that returns nil; and while it is cleared every
\* Stop and Wait returns the not-started error.
C7_StoppedUntilRestarted ==
  [][/\ (pc # "idle" /\ pc' = "idle" /\ ret'.op = "Stop" /\ ret'.err = Nil)
          => tmpCmd' = 0
     /\ (tmpCmd = 0 /\ tmpCmd' # 0) => (ret'.op = "Start" /\ ret'.err = Nil)
     /\ (pc = "idle" /\ tmpCmd = 0 /\ ret' # ret /\ ret'.op \in {"Stop", "Wait"})
          => ret'.err = ErrNotStarted]_vars

\* C7 witness: the recorded cancel has been triggered by a Stop, the handle is
\* cleared, and a further Stop or Wait has returned the not-started error.
C7_Witness ==
  /\ tmpCancel # 0 /\ ctxDone[tmpCancel] /\ tmpCmd = 0 /\ pc = "idle"
  /\ ret.op \in {"Stop", "Wait"} /\ ret.err = ErrNotStarted

C10_CancelFirstAndNoKillOfCancelled ==
  /\ pc \in {"poll", "kill", "loop"} => (tmpCancel # 0 /\ ctxDone[tmpCancel])
  /\ killSent => ~aliveAtCancel

\* C10 witness: the process was alive when Stop triggered the cancel and has
\* been killed through its context before Stop tests the process state.
C10_Witness ==
  /\ pc = "poll" /\ aliveAtCancel /\ ctxDone[tmpCmd]
  /\ osProc[tmpCmd] = "ended" /\ ~osStatus[tmpCmd].exited

\* C11: a Stop called on a process that had already ended by itself (with any
\* status, waited for or not) ends at its first test: its next step returns
\* nil with the handle cleared, and no Process.Kill has been sent.
C11_ExitedProcessStopsAtOnce ==
  [][(exitedAtStop /\ pc' # pc)
       => (pc' = "idle" /\ ret'.err = Nil /\ tmpCmd' = 0 /\ ~killSent')]_vars

\* C12: after a Start in which a pipe request failed, Start has returned that
\* request's error and no Interact, cmd.Start() was not reached, the exec.Cmd
\* has no process and it is not the recorded handle.
C12_AttachFailureAbortsStart ==
  (ret.op = "Start" /\ ret.attach \in {"Stdin", "Stdout", "Stderr"})
    => /\ ret.err = ErrPipe(ret.attach)
       /\ ~ret.i
       /\ ret.launch = "none"
       /\ ~Process[ret.cmd] /\ osProc[ret.cmd] = "none"
       /\ tmpCmd # ret.cmd

\* C12 witness: the third pipe request of a second Start has failed while the
\* process of the first Start runs on under its recorded handle.
C12_Witness ==
  /\ ret.op = "Start" /\ ret.attach = "Stderr" /\ ret.cmd = 2
  /\ tmpCmd = 1 /\ osProc[1] = "running"

\* C15: a Start made while the process of the recorded handle is running
\* records the new exec.Cmd as the handle when it returns nil, and changes
\* neither the contexts nor the processes of the executions started before:
\* nothing is cancelled and nothing is killed.
C15_StartSupersedesWithoutKilling ==
  [][(nextExec' # nextExec /\ tmpCmd # 0 /\ osProc[tmpCmd] = "running")
       => /\ ret'.err = Nil => tmpCmd' = nextExec'
          /\ \A e \in 1..nextExec :
               /\ ctxDone'[e] = ctxDone[e]
               /\ osProc'[e] = osProc[e]
               /\ osStatus'[e] = osStatus[e]
          /\ ~killSent']_vars

\* C15 witness: a second Start has returned nil and is the recorded handle
\* while the process of the first, never cancelled, is still running.
C15_Witness ==
  /\ ret.op = "Start" /\ ret.err = Nil /\ tmpCmd = 2 /\ osProc[2] = "running"
  /\ osProc[1] = "running" /\ ~ctxDone[1]

\* C13: a Run, CombinedOutput or Start made while the modifier hook fails
\* returns the hook's error in the same step, does not reach cmd.Start() and
\* leaves the set of processes as it was.
C13_ModifierFailureAbortsLaunch ==
  [][(cmdModifierFunc = "fail" /\ ret' # ret
        /\ ret'.op \in {"Run", "CombinedOutput", "Start"})
       => /\ ret'.err = ErrModifier
          /\ ret'.launch = "none"
          /\ pc' = "idle"
          /\ Process' = Process /\ osProc' = osProc]_vars

\* C13 witness: CombinedOutput of a program that can be spawned has returned
\* the error of the hook.
C13_Witness == ret.op = "CombinedOutput" /\ ret.err = ErrModifier /\ Name = "cat"

\* C14: a Run, CombinedOutput or Start called with the empty name has returned
\* an error without having reached the launch (cmd.Start()).
C14_EmptyNameRefusedBeforeLaunch ==
  (ret.op \in {"Run", "CombinedOutput", "Start"} /\ Name = "")
    => (ret.err # Nil /\ ret.launch = "none")

\* C16: no step of Stop (a step that moves Stop on, touches its timers or
\* makes it return) changes the state of the caller's context.
C16_StopLeavesOuterContext ==
  [][(pc' # pc \/ ticker' # ticker \/ timeout' # timeout
        \/ (ret' # ret /\ ret'.op = "Stop"))
       => outerDone' = outerDone]_vars

\* C16 witness: Stop has cancelled the inner context and returned, the process
\* has been killed through it, and the caller's context is not done.
C16_Witness ==
  /\ pc = "idle" /\ ret.op = "Stop" /\ ret.err = Nil /\ ret.cmd # 0
  /\ tmpCancel = ret.cmd /\ ctxDone[tmpCancel] /\ ~outerDone
  /\ osProc[ret.cmd] = "ended" /\ ~osStatus[ret.cmd].exited

\* C17: a process that is running when the caller's context is done
\* eventually is no longer running, whether or not Stop is called.
C17_OuterCancelEndsProcess ==
  \A e \in Execs : (outerDone /\ osProc[e] = "running") ~> (osProc[e] # "running")

\* C17 witness: the caller's context is done, Stop was never called (the last
\* call is the Start), and the started process has died of a signal.
C17_Witness ==
  /\ outerDone /\ ret.op = "Start" /\ ret.cmd # 0 /\ Process[ret.cmd]
  /\ osProc[ret.cmd] = "ended" /\ ~osStatus[ret.cmd].exited

\* C18: a Kill called on a Cmd that has no cancel function and no process
\* returns the not-running error in the same step, calls neither Process.Kill
\* nor Wait, and leaves the Cmd and the OS as they were.
C18_KillWithoutScopeOrProcess ==
  [][(/\ Cmd.made /\ cmdCall.pc = "idle"
      /\ cmdCall' # cmdCall /\ cmdCall'.op = "Kill"
      /\ ~Cmd.cancelFunc /\ ~Cmd.Process)
       => /\ cmdCall'.err = ErrNotRunning
          /\ cmdCall'.pc = "idle"
          /\ ~cmdCall'.signalled
          /\ Cmd' = Cmd /\ cmdProc' = cmdProc]_vars

\* C18 witness: Kill has returned the not-running error on a Cmd made by New
\* that has no process.
C18_Witness ==
  /\ cmdCall.op = "Kill" /\ cmdCall.err = ErrNotRunning
  /\ Cmd.made /\ ~Cmd.cancelFunc /\ cmdProc.state = "none"

\* C19: a Kill on a Cmd with a cancel function triggers it and calls no
\* Process.Kill; on a Cmd without one but with a process it calls
\* Process.Kill and cancels nothing; and when such a Kill returns, the
\* process of the Cmd (if it has one) has been waited for: its ProcessState is
\* recorded.
C19_KillCancelsOrSignalsThenWaits ==
  [][/\ (/\ Cmd.made /\ cmdCall.pc = "idle"
         /\ cmdCall' # cmdCall /\ cmdCall'.op = "Kill" /\ Cmd.cancelFunc)
          => (Cmd'.ctxDone /\ ~cmdCall'.signalled)
     /\ (/\ Cmd.made /\ cmdCall.pc = "idle"
         /\ cmdCall' # cmdCall /\ cmdCall'.op = "Kill"
         /\ ~Cmd.cancelFunc /\ Cmd.Process)
          => (cmdCall'.signalled /\ Cmd'.ctxDone = Cmd.ctxDone)
     /\ (/\ cmdCall' # cmdCall /\ cmdCall'.op = "Kill" /\ cmdCall'.pc = "idle"
         /\ (Cmd.cancelFunc \/ Cmd.Process) /\ Cmd'.Process)
          => (Cmd'.ProcessState # <<>> /\ cmdProc'.state = "reaped")]_vars

\* C19 witness: a Kill on a Cmd made by New has killed the running process
\* with a signal, waited for it and returned.
C19_Witness ==
  /\ cmdCall.op = "Kill" /\ cmdCall.pc = "idle" /\ cmdCall.signalled
  /\ ~Cmd.cancelFunc /\ cmdProc.state = "reaped" /\ ~cmdProc.byItself
  /\ Cmd.ProcessState = <<[exited |-> FALSE, code |-> -1]>>

\* C20: a Kill called on a process that had already exited by itself (with
\* success) calls no Process.Kill and returns nil.
C20_KillOfExitedProcessSucceeds ==
  (cmdCall.op = "Kill" /\ cmdCall.exitedOK)
    => (~cmdCall.signalled /\ (cmdCall.pc = "idle" => cmdCall.err = Nil))

\* C21: a Kill on a started Cmd whose exit has already been collected by Wait
\* (its ProcessState is recorded) returns a non-nil error, whether the Cmd has
\* a cancel function (NewWithContext) or not (New).
C21_KillAfterWaitFails ==
  [][(/\ cmdCall' # cmdCall /\ cmdCall'.op = "Kill" /\ cmdCall'.pc = "idle"
      /\ Cmd.Process /\ Cmd.ProcessState # <<>>)
       => cmdCall'.err # Nil]_vars

\* C21 witness: on a Cmd made by NewWithContext whose process exited with
\* success and was waited for, Kill has returned the error of its final Wait.
C21_Witness ==
  /\ cmdCall.op = "Kill" /\ cmdCall.pc = "idle" /\ ~cmdCall.signalled
  /\ Cmd.cancelFunc /\ cmdProc.state = "reaped" /\ cmdProc.byItself
  /\ Cmd.ProcessState = <<[exited |-> TRUE, code |-> 0]>>
  /\ cmdCall.err = ErrWaitAlreadyCalled

\* C22: every goroutine started by KillTimer or KillAfter eventually has
\* called Kill once and has had one outcome received from its errCh, the
\* result of that Kill; at no time has it called Kill twice or sent twice, and
\* a goroutine that has ended has done each exactly once.
C22_TimerFiresAndReportsOnce ==
  \A t \in Timers :
    /\ [](t \in DOMAIN killTimers
           => /\ killTimers[t].kills <= 1 /\ Len(killTimers[t].sent) <= 1
              /\ killTimers[t].pc = "done"
                   => (killTimers[t].kills = 1 /\ killTimers[t].sent = <<killTimers[t].err>>))
    /\ (t \in DOMAIN killTimers)
         ~> (/\ t \in DOMAIN killTimers
             /\ killTimers[t].pc = "done" /\ killTimers[t].kills = 1
             /\ killTimers[t].sent = <<killTimers[t].err>>)

\* C23: when the goroutine of a KillAfter has called Kill on a process that
\* was running (a command that does not end by itself) and its outcome has
\* been received from errCh, that outcome is nil.
C23_KillAfterDeliversNil ==
  \A t \in DOMAIN killTimers :
    (killTimers[t].pc = "done" /\ killTimers[t].live /\ ~cmdProc.byItself)
      => killTimers[t].sent = <<Nil>>

\* C24: after a Run that got past the modifier hook, a child that exited with
\* a code n other than 0 has left ExitCode n and a non-nil error; a child that
\* exited with 0 has left ExitCode 0 and a nil error; and when no child ran
\* (the spawn failed, or the context was already cancelled) ExitCode is 0 and
\* the error is non-nil.
C24_RunRecordsExitCode ==
  (pc = "idle" /\ run # NoRun /\ ret.launch # "none")
    => /\ (run[1].child # <<>> /\ run[1].child[1].exited /\ run[1].child[1].code # 0)
            => (ExitCode = run[1].child[1].code /\ ret.err # Nil)
       /\ (run[1].child # <<>> /\ run[1].child[1].exited /\ run[1].child[1].code = 0)
            => (ExitCode = 0 /\ ret.err = Nil)
       /\ run[1].child = <<>> => (ExitCode = 0 /\ ret.err # Nil /\ ret.launch = "failed")

\* C24 witness: a Run of a program that can be spawned, made under a context
\* that was already cancelled, has returned the context's error with no child.
C24_Witness ==
  /\ run # NoRun /\ outerDone /\ Name = "cat" /\ run[1].child = <<>>
  /\ ret.err = ErrCanceled /\ ExitCode = 0

\* C25: a Rerun that directly follows a Run (the options and the context are
\* as that Run found them), whose child ends as the child of the Run did,
\* leaves Name, Args and Dir as they were, and leaves the same exit code,
\* returns the same error and hands back the same output as the Run.
C25_RerunRepeatsRun ==
  [][(/\ pc = "idle" /\ run # NoRun /\ ~run[1].re /\ run' # NoRun /\ run'[1].re
      /\ run'[1].child = run[1].child)
       => /\ Name' = Name /\ Args' = Args /\ Dir' = Dir
          /\ ExitCode' = ExitCode
          /\ ret'.err = ret.err
          /\ run'[1].out = run[1].out]_vars

\* C25 witness: a Rerun in a working directory set by an option has passed
\* arguments to a child that exited with a code other than 0 and wrote output.
C25_Witness ==
  /\ run # NoRun /\ run[1].re /\ Dir # "" /\ Args # <<>>
  /\ ExitCode = 1 /\ run[1].out = Written(Name, Args, Dir)

\* C26: every Run, whether it returns nil or an error, returns a non-nil
\* result value (*Pipes) and leaves the options set before (Dir, the modifier
\* hook) as they were.
C26_RunAlwaysReturnsResult ==
  [][(ret' # ret /\ ret'.op = "Run")
       => (run'[1].pipes /\ Dir' = Dir /\ cmdModifierFunc' = cmdModifierFunc)]_vars

\* The bytes the child has written to output stream s, in the order it wrote
\* them.
ChildWrote(s) == [n \in 1..Flow(s).written |-> n]

\* C27: once the child has exited and Wait has collected it (Run or Wait has
\* returned), the sink of every output stream that was wired and applied
\* holds the bytes the child wrote to it, each once and in order.
C27_SinkCompleteAtExit ==
  Cmd.ProcessState # <<>>
    => \A s \in OutStreams :
         (wire # NoIO /\ wire.set[s] /\ s \in stdio) => Flow(s).sink = ChildWrote(s)

\* C28: a CloseInput on a stream holder that has no input conduit (an IO whose
\* Stdin is nil, the Pipes returned by Run) has returned nil and has not
\* panicked.
C28_CloseInputWithoutConduit ==
  /\ (ioCall # NoIOCall /\ ioCall.op = "IO.CloseInput" /\ ~wire.set["Stdin"])
       => (~ioCall.panic /\ ioCall.err = Nil)
  /\ (ioCall # NoIOCall /\ ioCall.op = "Pipes.CloseInput" /\ ~doRunStdin)
       => (~ioCall.panic /\ ioCall.err = Nil)

\* C29: a WireIO that returns has started one pump for each stream whose
\* source or sink is non-nil and none for the others, has set the fields of
\* exactly those streams, and has returned before any pump has moved a byte.
C29_WireIOStartsPumps ==
  [][(wire = NoIO /\ wire' # NoIO /\ wire'.made)
       => /\ \A s \in StreamSet :
               /\ wire'.pumps[s] = IF ioCall'.src[s] THEN 1 ELSE 0
               /\ wire'.set[s] = ioCall'.src[s]
          /\ ioCall'.op = "WireIO" /\ ~ioCall'.panic
          /\ flow' = flow /\ \A s \in OutStreams : Flow(s)'.sink = <<>>]_vars

\* C29 witness: WireIO has been given an output sink only, has returned, and
\* the one pump it started has since copied what the child wrote.
C29_Witness ==
  /\ wire # NoIO /\ wire.made
  /\ wire.pumps = [s \in StreamSet |-> IF s = "Stdout" THEN 1 ELSE 0]
  /\ ~wire.set["Stdin"] /\ wire.set["Stdout"] /\ ~wire.set["Stderr"]
  /\ Flow("Stdout").sink = <<1, 2>>

\* C30: pipes.Attach has made its requests in the order input, output, error,
\* up to and including the first one the Plumber fails and none after it;
\* when a request failed it has returned nil with that request's error; when
\* none failed it has returned the three conduits of the Plumber, each in its
\* own field.
C30_AttachInOrderOrNothing ==
  (ioCall # NoIOCall /\ ioCall.op = "Attach")
    => /\ \E n \in 1..3 : ioCall.asked = SubSeq(Streams, 1, n)
       /\ \A n \in 1..Len(ioCall.asked) :
            ioCall.asked[n] \in ioCall.failing <=> n = Len(ioCall.asked) /\ ioCall.err # Nil
       /\ ioCall.failing # {}
            => /\ ioCall.p = <<>>
               /\ ioCall.err = ErrPipe(ioCall.asked[Len(ioCall.asked)])
       /\ ioCall.failing = {}
            => /\ ioCall.err = Nil /\ ioCall.asked = Streams
               /\ ioCall.p = <<[s \in StreamSet |-> PlumberPipe(s)]>>

\* C30 witness: with a Plumber that fails the output and the error request,
\* Attach has stopped after the output request and returned nil and its error.
C30_Witness ==
  /\ ioCall # NoIOCall /\ ioCall.op = "Attach" /\ ioCall.failing = {"Stdout", "Stderr"}
  /\ ioCall.asked = <<"Stdin", "Stdout">> /\ ioCall.p = <<>>
  /\ ioCall.err = ErrPipe("Stdout")

\* The number of tasks that are inside (*exec.Cmd).Wait on the started Cmd:
\* the caller, in the Wait its Kill ends with, and the goroutines of
\* KillTimer, in the Wait of theirs.
InExecWait ==
  IF ~Cmd.Process THEN 0
  ELSE (IF cmdCall.pc = "wait" THEN 1 ELSE 0)
         + Cardinality({t \in DOMAIN killTimers : killTimers[t].pc = "wait"})

\* C31: at no time is more than one task inside an operation on the process
\* state of the Cmd: the goroutine of a KillTimer and the caller are never in
\* (*exec.Cmd).Wait on it together.
C31_OneTaskOnProcessState == InExecWait <= 1

\* The places in an option list of the options that set field f.
Setters(list, f) == {n \in 1..Len(list) : list[n].field = f}

\* The last option of the list that sets field f.
LastSetter(list, f) ==
  CHOOSE n \in Setters(list, f) : \A m \in Setters(list, f) : m <= n

\* C32: a With with an option list leaves every field that no option of the
\* list sets as it was and sets every other field to the value of the last
\* option for it; it leaves Name, Args, ExitCode and the recorded handle and
\* cancel as they were; and applied to a Capture made by New() it yields the
\* configuration that New with the same list yields.
C32_OptionsByNewAndByWith ==
  [][(Config' # Config)
       => /\ \A f \in DOMAIN Config :
               Config'[f] = IF Setters(options, f) = {} THEN Config[f]
                            ELSE options[LastSetter(options, f)].value
          /\ UNCHANGED <<Name, Args, ExitCode, tmpCmd, tmpCancel>>
          /\ Config = New(<<>>) => Config' = New(options)]_vars

\* C32 witness: after a Start and a Run, a With whose list sets the working
\* directory twice has been applied: the second value stands, and the name,
\* the exit code and the handle of the calls before are still there.
C32_Witness ==
  /\ options = <<[field |-> "Dir", value |-> ""], [field |-> "Dir", value |-> "/tmp"]>>
  /\ Config = New(options) /\ Dir = "/tmp"
  /\ ret.op = "Run" /\ run = NoRun
  /\ Name = "cat" /\ ExitCode = 1 /\ tmpCmd # 0

\* The command the call `call` ran writes the same output every time.
Deterministic(call) ==
  LET cmd == Command(call.name, call.args) IN
  cmd.Path \in DOMAIN Programs => Programs[cmd.Path].fixed

\* The file the call `call` asked exec to run.
Ran(call) == Command(call.name, call.args).Path

\* C33: a re-capture of a Result (both calls under a context that is not
\* done) runs the command the call that made the Result ran, with the same
\* arguments, and its Result has the same Name, Args and ExitCode, and the
\* same Output when the command is deterministic.
C33_RecaptureRepeatsCapture ==
  \A i \in 2..Len(captured) :
    LET want == captured[i - 1]
        got == captured[i] IN
    (~want.done /\ ~got.done)
      => /\ Ran(got) = Ran(want) /\ got.args = want.args
         /\ got.cr.Name = want.cr.Name /\ got.cr.Args = want.cr.Args
         /\ got.cr.ExitCode = want.cr.ExitCode
         /\ Deterministic(want) => got.cr.Output = want.cr.Output

\* C34: whenever the Capture holds both a cancel function and a command,
\* they were made by the same Start, so that Stop cancels the context of the
\* command it polls and clears.
C34_CancelAndCmdOfOneStart ==
  (tmpCancel # 0 /\ tmpCmd # 0) => tmpCancel = tmpCmd

Collected(err) == err = Nil \/ err.kind = "ExitError"

\* The tasks whose Kill or Wait has returned what the Wait that collected the
\* process returns: the caller's last call, and the goroutines of KillTimer.
Collectors ==
  (IF cmdCall.pc = "idle" /\ cmdCall.op \in {"Kill", "Wait"} /\ Collected(cmdCall.err)
   THEN 1 ELSE 0)
  + Cardinality({t \in DOMAIN killTimers :
                   killTimers[t].pc \in {"send", "done"} /\ Collected(killTimers[t].err)})

\* The tasks that are inside a Wait which will not return.
BlockedInWait ==
  (IF cmdCall.pc = "blocked" THEN 1 ELSE 0)
  + Cardinality({t \in DOMAIN killTimers : killTimers[t].pc = "blocked"})

\* C36: of the caller's Kill or Wait and the Kills of the goroutines on one
\* Cmd, at most one has returned as the Wait that collected the process does
\* (the others have returned another error), and none is inside a Wait that
\* will not return.
C36_OneCollectsNoneBlocks == Collectors <= 1 /\ BlockedInWait = 0

\* C37: when the goroutine of a KillTimer or KillAfter calls Kill on a Cmd
\* that has no cancel function and no process yet, Kill returns the
\* not-running error at once and touches neither the Cmd nor any process;
\* the only step the goroutine takes after that is the send of this error,
\* which is eventually received from errCh; so a process started later is
\* not killed by it.
C37_EarlyTimerReportsNotRunning ==
  /\ [][\A t \in DOMAIN killTimers :
          /\ (killTimers'[t].kills # killTimers[t].kills
              /\ ~Cmd.cancelFunc /\ ~Cmd.Process)
               => /\ killTimers'[t].pc = "send"
                  /\ killTimers'[t].err = ErrNotRunning
                  /\ Cmd' = Cmd /\ cmdProc' = cmdProc
          /\ (killTimers[t].err = ErrNotRunning /\ killTimers'[t] # killTimers[t])
               => /\ killTimers[t].pc = "send" /\ killTimers'[t].pc = "done"
                  /\ killTimers'[t].sent = <<ErrNotRunning>>
                  /\ killTimers'[t].kills = killTimers[t].kills
                  /\ Cmd' = Cmd /\ cmdProc' = cmdProc]_vars
  /\ \A t \in Timers :
       (t \in DOMAIN killTimers /\ killTimers[t].err = ErrNotRunning)
         ~> (/\ t \in DOMAIN killTimers /\ killTimers[t].pc = "done"
             /\ killTimers[t].sent = <<ErrNotRunning>>)

\* C37 witness: the goroutine fired before Start on a Cmd made by New, its
\* not-running error has been received, and the process started afterwards is
\* running.
C37_Witness ==
  \E t \in DOMAIN killTimers :
    /\ killTimers[t].pc = "done" /\ killTimers[t].sent = <<ErrNotRunning>>
    /\ killTimers[t].kills = 1 /\ ~killTimers[t].live
    /\ ~Cmd.cancelFunc /\ Cmd.Process /\ cmdProc.state = "running"

\* The child of the Cmd has exited, and the source wired to its input, if
\* there is one, has been read to its end.
ExitedAndExhausted ==
  /\ cmdProc.state \in {"ended", "reaped"}
  /\ wire.pumps["Stdin"] > 0 => Flow("Stdin").written = SourceLen

\* C38: once the child has exited and the source is exhausted, the pump of
\* every stream that was wired by WireIO and applied to the Cmd is eventually
\* over (its io.Copy has returned).
C38_PumpsEndAfterExit ==
  \A s \in StreamSet :
    (wire # NoIO /\ wire.pumps[s] > 0 /\ s \in stdio /\ ExitedAndExhausted)
      ~> (wire # NoIO /\ s \in wire.over)

\* C39: a Run or a Start of name and args made while the modifier hook fails
\* returns the hook's error, leaves ExitCode and tmpCmd as they were, and
\* leaves name and args recorded in Name and Args.
C39_AbortedLaunchKeepsOutcome ==
  [][\A c \in Commands :
       (/\ cmdModifierFunc = "fail"
        /\ \/ \E st \in RunStatuses(c.name) : Run(c.name, c.args, st)
           \/ \E p \in PipeOutcomes : Start(c.name, c.args, p))
         => /\ ret'.op \in {"Run", "Start"} /\ ret'.err = ErrModifier
            /\ ExitCode' = ExitCode /\ tmpCmd' = tmpCmd
            /\ Name' = c.name /\ Args' = c.args]_vars

\* C39 witness: after a Run whose child exited with 1 and a Start that
\* recorded a handle, a launch of another command was aborted by the hook:
\* the exit code and the handle are still there under the new name.
C39_Witness ==
  /\ ret.op \in {"Run", "Start"} /\ ret.err = ErrModifier
  /\ cmdModifierFunc = "fail"
  /\ ExitCode = 1 /\ tmpCmd # 0
  /\ Name = "nosuch" /\ Args = <<>>

====
